---- MODULE Spec2Model ----
(***************************************************************************)
(* Verification model of SneakerDropBot's resilient ingestion and          *)
(* change-detection engine.                                                *)
(*                                                                         *)
(*   Part 1  circuit breaker of EnhancedBaseScraper                        *)
(*           (Sneaker Bot/scrapers/enhanced_base_scraper.py)               *)
(*   Part 2  ScraperManager searches through per-call scraper instances    *)
(*           (Latest Code/scrapers/scraper_manager.py)                     *)
(*   Part 3  change detection: restock, price drop, flip opportunity       *)
(*   Part 4  the Monitor cycle: search, upsert, per-subscriber detection   *)
(*   Part 5  MonitoringEngine: the alert queue and its consumer            *)
(*           (Latest Code/app/monitoring_engine.py)                        *)
(*   Part 6  search_with_fallback and the health classification           *)
(*   Part 7  health alerts, auto-heal and the periodic runs                *)
(*   Part 8  confidence scoring of extracted records                       *)
(*   Part 9  search_all_retailers with failing sources and storage         *)
(*                                                                         *)
(* Timestamps of datetime.now() are in seconds (variable now), those of    *)
(* datetime.utcnow() are in minutes (variable utcnow).  Python's None is   *)
(* the value None.  Prices are whole dollars.                              *)
(***************************************************************************)
EXTENDS Integers, Sequences, FiniteSets, TLC

VARIABLES
    now,                \* datetime.now(), seconds
    failure_count,      \* EnhancedBaseScraper.failure_count
    last_failure_time,  \* EnhancedBaseScraper.last_failure_time
    health_stats,       \* EnhancedBaseScraper.health_stats
    req,                \* the calls of _make_robust_request in progress
    hist,               \* history: the outcomes of the completed requests
    orch,               \* ScraperManager: the search in progress
    utcnow,             \* datetime.utcnow(), minutes
    db,                 \* db_manager.db: products, users, tracked_sneakers, resell_data
    mon,                \* monitor_tracked_sneakers: the cycle in progress
    probe,              \* one evaluation of the change detectors or the health classifier
    eng,                \* MonitoringEngine: alert queue, producers, consumer
    srch,               \* search_with_fallback: the search in progress
    hm                  \* ScraperHealthMonitor: alerts, and the periodic runs

bvars == <<now, failure_count, last_failure_time, health_stats, req, hist, orch>>
mvars == <<utcnow, db, mon, probe, eng, srch, hm>>
vars  == <<now, failure_count, last_failure_time, health_stats, req, hist, orch,
           utcnow, db, mon, probe, eng, srch, hm>>

None == -1

(***************************************************************************)
(* Bounds of the model.                                                    *)
(***************************************************************************)
MaxRequests == 7      \* admitted requests per scraper instance
TickStep    == 100    \* seconds one clock step advances
MaxTime     == 600    \* the clock stops here
MaxSearches == 6      \* searches the orchestrator starts

\* the concurrent callers of one scraper instance
Req == {"a", "b"}

(***************************************************************************)
(* Part 1: the circuit breaker.                                            *)
(***************************************************************************)
circuit_breaker_threshold == 5
circuit_breaker_timeout   == 300
max_retries               == 3

\* the results an HTTP attempt can have
Outcomes == {"200", "429", "403", "500", "timeout", "connerr"}

\* the breaker with an off-by-one threshold comparison
is_circuit_breaker_open_at_late(fc, lft, t) ==
    IF fc <= circuit_breaker_threshold THEN FALSE
    ELSE IF lft # None THEN (t - lft) < circuit_breaker_timeout
    ELSE TRUE

is_circuit_breaker_open_at(fc, lft, t) ==
    IF fc < circuit_breaker_threshold THEN FALSE
    ELSE IF lft # None THEN (t - lft) < circuit_breaker_timeout
    ELSE TRUE

is_circuit_breaker_open ==
    is_circuit_breaker_open_at(failure_count, last_failure_time, now)

InitHealthStats ==
    [total_requests |-> 0, successful_requests |-> 0,
     last_successful_scrape |-> None, consecutive_failures |-> 0]

\* record_success and record_failure, as the new values of
\* <<failure_count, last_failure_time, health_stats>>
\* record_success that forgets to reset the failure counter
record_success_noreset(fc, lft, hs) ==
    <<fc, None,
      [hs EXCEPT !.successful_requests = @ + 1,
                 !.consecutive_failures = 0,
                 !.last_successful_scrape = now]>>

record_success(fc, lft, hs) ==
    <<0, None,
      [hs EXCEPT !.successful_requests = @ + 1,
                 !.consecutive_failures = 0,
                 !.last_successful_scrape = now]>>

\* record_failure that stops counting at the breaker's threshold
record_failure_saturating(fc, lft, hs) ==
    <<IF fc < circuit_breaker_threshold THEN fc + 1 ELSE fc, now,
      [hs EXCEPT !.consecutive_failures = @ + 1]>>

\* record_failure that counts every attempt of the request
record_failure_per_attempt(fc, lft, hs) ==
    <<fc + max_retries, now, [hs EXCEPT !.consecutive_failures = @ + 1]>>

record_failure(fc, lft, hs) ==
    <<fc + 1, now, [hs EXCEPT !.consecutive_failures = @ + 1]>>

IdleReq ==
    [pc |-> "idle", attempt |-> 0, fetches |-> 0, result |-> "none",
     gotOK |-> FALSE, mode |-> "none"]

\* the state of the breaker that the history of completed requests demands:
\* Closed under 5 consecutive failures, Open within the cooldown of the last
\* failure, HalfOpen after it
BreakerMode(h, t) ==
    IF h.trail < 5 THEN "closed"
    ELSE IF t - h.lastFail < 300 THEN "open"
    ELSE "halfopen"

HistSuccess(h) == [h EXCEPT !.trail = 0, !.lastFail = None]
HistFailure(h, trial) ==
    [h EXCEPT !.trail = @ + 1, !.lastFail = now,
              !.trialFail = IF trial THEN now ELSE @]

InitHist == [trail |-> 0, lastFail |-> None, trialFail |-> None, admitted |-> 0]

BreakerInit ==
    /\ now = 0
    /\ failure_count = 0
    /\ last_failure_time = None
    /\ health_stats = InitHealthStats
    /\ req = [r \in Req |-> IdleReq]
    /\ hist = InitHist

\* _make_robust_request up to its first suspension: the breaker check, the
\* request counter and the first session.get
StartRequestBody(r) ==
    /\ UNCHANGED mvars
    /\ req[r].pc = "idle"
    /\ health_stats.total_requests < MaxRequests
    /\ IF is_circuit_breaker_open
       THEN /\ req' = [req EXCEPT ![r] = [IdleReq EXCEPT !.pc = "done",
                                    !.result = "null",
                                    !.mode = BreakerMode(hist, now)]]
            /\ UNCHANGED health_stats
       ELSE /\ health_stats' = [health_stats EXCEPT !.total_requests = @ + 1]
            /\ req' = [req EXCEPT ![r] = [IdleReq EXCEPT !.pc = "inflight",
                                    !.fetches = 1,
                                    !.mode = BreakerMode(hist, now)]]
    /\ hist' = [hist EXCEPT !.admitted =
                   IF is_circuit_breaker_open THEN @ ELSE @ + 1]
    /\ UNCHANGED <<now, failure_count, last_failure_time>>

StartRequest(r) ==
    /\ orch.pc = "off"
    /\ StartRequestBody(r)
    /\ UNCHANGED orch

\* one caller at a time, as search_products awaits each request in turn
StartRequestSeq(r) ==
    /\ \A q \in Req : req[q].pc = "idle"
    /\ StartRequest(r)

\* the response of the attempt in flight
Response(r, outcome) ==
    /\ UNCHANGED mvars
    /\ req[r].pc = "inflight"
    /\ IF outcome = "200"
       THEN LET s == record_success(failure_count, last_failure_time, health_stats)
            IN /\ failure_count' = s[1]
               /\ last_failure_time' = s[2]
               /\ health_stats' = s[3]
               /\ hist' = HistSuccess(hist)
               /\ req' = [req EXCEPT ![r].pc = "parsing", ![r].gotOK = TRUE]
       ELSE IF req[r].attempt + 1 < max_retries
       THEN \* 429 and 403 sleep first; then the backoff of the next attempt
            /\ req' = [req EXCEPT ![r].pc = "backoff", ![r].attempt = @ + 1]
            /\ UNCHANGED <<failure_count, last_failure_time, health_stats, hist>>
       ELSE IF outcome \in {"429", "403"}
       THEN \* the sleep after the last attempt, before record_failure
            /\ req' = [req EXCEPT ![r].pc = "finalsleep"]
            /\ UNCHANGED <<failure_count, last_failure_time, health_stats, hist>>
       ELSE LET s == record_failure(failure_count, last_failure_time, health_stats)
            IN /\ failure_count' = s[1]
               /\ last_failure_time' = s[2]
               /\ health_stats' = s[3]
               /\ hist' = HistFailure(hist, req[r].mode = "halfopen")
               /\ req' = [req EXCEPT ![r].pc = "done", ![r].result = "null"]
    /\ UNCHANGED <<now, orch>>

\* the backoff sleep is over: the next session.get
Retry(r) ==
    /\ UNCHANGED mvars
    /\ req[r].pc = "backoff"
    /\ req' = [req EXCEPT ![r].pc = "inflight", ![r].fetches = @ + 1]
    /\ UNCHANGED <<now, failure_count, last_failure_time, health_stats, hist, orch>>

\* the loop is exhausted after a 429 or 403: record_failure, return None
FinishFailure(r) ==
    /\ UNCHANGED mvars
    /\ req[r].pc = "finalsleep"
    /\ LET s == record_failure(failure_count, last_failure_time, health_stats)
       IN /\ failure_count' = s[1]
          /\ last_failure_time' = s[2]
          /\ health_stats' = s[3]
    /\ hist' = HistFailure(hist, req[r].mode = "halfopen")
    /\ req' = [req EXCEPT ![r].pc = "done", ![r].result = "null"]
    /\ UNCHANGED <<now, orch>>

\* _try_multiple_parsing_methods: the strategies in order, the first success
Strategies == <<"json_ld", "script_json", "html_structured", "html_fallback">>

try_multiple_parsing_methods(ok) ==
    IF ok[1] THEN [success |-> TRUE, method |-> Strategies[1]]
    ELSE IF ok[2] THEN [success |-> TRUE, method |-> Strategies[2]]
    ELSE IF ok[3] THEN [success |-> TRUE, method |-> Strategies[3]]
    ELSE [success |-> ok[4], method |-> Strategies[4]]

\* the caller parses the page of a 200 response (_try_nike_web_search)
Parse(r) ==
    /\ UNCHANGED mvars
    /\ req[r].pc = "parsing"
    /\ \E ok \in [1..4 -> BOOLEAN] :
         req' = [req EXCEPT ![r].pc = "done",
                   ![r].result = IF try_multiple_parsing_methods(ok).success
                                 THEN "products" ELSE "empty"]
    /\ UNCHANGED <<now, failure_count, last_failure_time, health_stats, hist, orch>>

\* the caller has taken the result
Return(r) ==
    /\ UNCHANGED mvars
    /\ req[r].pc = "done"
    /\ orch.pc = "off"
    /\ req' = [req EXCEPT ![r] = IdleReq]
    /\ UNCHANGED <<now, failure_count, last_failure_time, health_stats, hist, orch>>

Tick ==
    /\ UNCHANGED mvars
    /\ now + TickStep <= MaxTime
    /\ now' = now + TickStep
    /\ UNCHANGED <<failure_count, last_failure_time, health_stats, req, hist, orch>>

OrchOff == [pc |-> "off"]

\* the monitor is not part of this specification
MonitorOff ==
    /\ utcnow = 0
    /\ db = [products |-> {}, users |-> <<>>, tracked_sneakers |-> <<>>,
             resell_data |-> <<>>]
    /\ mon = [pc |-> "off"]
    /\ probe = [pc |-> "off"]
    /\ eng = [pc |-> "off"]
    /\ srch = [pc |-> "off"]
    /\ hm = [pc |-> "off"]

Init ==
    /\ BreakerInit
    /\ orch = OrchOff
    /\ MonitorOff

Next ==
    \/ \E r \in Req : StartRequest(r)
    \/ \E r \in Req : \E o \in Outcomes : Response(r, o)
    \/ \E r \in Req : Retry(r)
    \/ \E r \in Req : FinishFailure(r)
    \/ \E r \in Req : Parse(r)
    \/ \E r \in Req : Return(r)
    \/ Tick

\* concurrent callers of one scraper instance
Spec == Init /\ [][Next]_vars

NextSeq ==
    \/ \E r \in Req : StartRequestSeq(r)
    \/ \E r \in Req : \E o \in Outcomes : Response(r, o)
    \/ \E r \in Req : Retry(r)
    \/ \E r \in Req : FinishFailure(r)
    \/ \E r \in Req : Parse(r)
    \/ \E r \in Req : Return(r)
    \/ Tick

\* one caller at a time
SpecSeq == Init /\ [][NextSeq]_vars

(***************************************************************************)
(* Properties of the circuit breaker.                                      *)
(***************************************************************************)
Active == {"inflight", "backoff", "finalsleep"}

\* C1: the breaker is Closed while fewer than 5 consecutive requests have
\* failed, so that a request started then is admitted; once 5 consecutive
\* requests have failed it is Open, and every request started within 300 s
\* of the last recorded failure returns no response and makes no HTTP fetch.
C1_OpenAfterThreshold ==
    /\ hist.trail < 5 => ~is_circuit_breaker_open
    /\ (hist.trail >= 5 /\ now - hist.lastFail < 300) => is_circuit_breaker_open
    /\ \A r \in Req :
         /\ req[r].mode = "closed" => req[r].fetches >= 1
         /\ req[r].mode = "open" =>
              /\ req[r].pc = "done"
              /\ req[r].result = "null"
              /\ req[r].fetches = 0

\* a request was short-circuited right after the 5th consecutive failure
C1_Witness ==
    \E r \in Req :
        /\ req[r].mode = "open"
        /\ req[r].pc = "done"
        /\ hist.trail = 5
        /\ now - hist.lastFail = 200

\* C2: with one caller at a time, the request that follows the cooldown of
\* an Open breaker is let through; when it succeeds the breaker is Closed
\* and the failure count is 0; when it fails the breaker is Open for 300 s
\* from that failure.
C2_HalfOpenTrial ==
    /\ \A r \in Req :
         req[r].mode = "halfopen" =>
            /\ req[r].fetches >= 1
            /\ req[r].gotOK =>
                  /\ failure_count = 0
                  /\ ~is_circuit_breaker_open
    /\ (hist.trialFail # None /\ now - hist.trialFail < 300) =>
          is_circuit_breaker_open

\* a trial failed, the breaker stayed Open, and a later trial succeeded
C2_Witness ==
    \E r \in Req :
        /\ req[r].mode = "halfopen"
        /\ req[r].gotOK
        /\ hist.trialFail # None
        /\ failure_count = 0

\* C3: of the requests started concurrently after the cooldown of an Open
\* breaker, only one is let through as the trial while its outcome is
\* outstanding.
C3_SingleTrial ==
    Cardinality({r \in Req : req[r].mode = "halfopen" /\ req[r].pc \in Active}) <= 1

\* C5: a request that receives HTTP 200 does not increment the failure
\* counter, whatever the parsing strategies then yield, and its call returns
\* products or an empty result; a request whose attempts all fail makes
\* 3 attempts and increments the failure counter by exactly 1.
C5_Step ==
    \A r \in Req :
        /\ req'[r].fetches <= 3
        /\ (req[r].pc = "inflight" /\ req'[r].pc = "parsing") =>
              failure_count' <= failure_count
        /\ (req[r].pc = "parsing" /\ req'[r].pc = "done") =>
              /\ failure_count' = failure_count
              /\ req'[r].result \in {"products", "empty"}
        /\ (req[r].pc \in {"inflight", "finalsleep"} /\ req'[r].pc = "done") =>
              /\ req[r].fetches = 3
              /\ req'[r].result = "null"
              /\ failure_count' = failure_count + 1

C5_FailureAccounting == [][C5_Step]_vars

\* one request got 200 and an empty parse, then another failed 3 attempts
C5_Witness ==
    \E r, q \in Req :
        /\ req[r].pc = "done" /\ req[r].gotOK /\ req[r].result = "empty"
        /\ req[q].pc = "done" /\ req[q].result = "null" /\ req[q].fetches = 3
        /\ failure_count = 1

(***************************************************************************)
(* Part 2: ScraperManager searches one retailer through                    *)
(* _search_with_monitoring.  get_enhanced_scraper_instance calls           *)
(* create_enhanced_scraper, which constructs a scraper for every call;     *)
(* search_products then issues its requests one after the other.           *)
(***************************************************************************)
\* requests EnhancedNikeScraper.search_products issues when none yields
\* products: two API endpoints, the web search, the HTML search
RequestsPerSearch == 4

OrchIdle ==
    [pc |-> "idle", k |-> 0, fetches |-> 0, failed |-> FALSE, guarded |-> FALSE,
     streak |-> 0, lastFail |-> None, searches |-> 0]

OrchInit ==
    /\ BreakerInit
    /\ orch = OrchIdle
    /\ MonitorOff

\* _search_with_monitoring up to search_products: a new scraper instance,
\* whose __init__ sets the breaker fields
SearchStart ==
    /\ UNCHANGED mvars
    /\ orch.pc = "idle"
    /\ orch.searches < MaxSearches
    /\ failure_count' = 0
    /\ last_failure_time' = None
    /\ health_stats' = InitHealthStats
    /\ orch' = [orch EXCEPT !.pc = "searching", !.k = 0, !.fetches = 0,
                  !.failed = TRUE, !.searches = @ + 1,
                  !.guarded = /\ orch.streak >= circuit_breaker_threshold
                              /\ now - orch.lastFail < circuit_breaker_timeout]
    /\ hist' = InitHist
    /\ UNCHANGED <<now, req>>

\* search_products issues its next request
SearchRequest ==
    /\ orch.pc = "searching"
    /\ orch.k < RequestsPerSearch
    /\ StartRequestBody("a")
    /\ orch' = [orch EXCEPT !.k = @ + 1]

\* search_products takes the result of a request: products end the search,
\* otherwise the next strategy follows, and after the last the search ends
SearchTake ==
    /\ UNCHANGED mvars
    /\ orch.pc = "searching"
    /\ req["a"].pc = "done"
    /\ req' = [req EXCEPT !["a"] = IdleReq]
    /\ LET f      == orch.fetches + req["a"].fetches
           failed == orch.failed /\ ~req["a"].gotOK
       IN IF req["a"].result = "products" \/ orch.k = RequestsPerSearch
          THEN orch' = [orch EXCEPT !.pc = "idle", !.fetches = f,
                          !.failed = failed,
                          !.streak = IF failed THEN @ + 1 ELSE 0,
                          !.lastFail = IF failed THEN now ELSE @]
          ELSE orch' = [orch EXCEPT !.fetches = f, !.failed = failed]
    /\ UNCHANGED <<now, failure_count, last_failure_time, health_stats, hist>>

NextOrch ==
    \/ SearchStart
    \/ SearchRequest
    \/ SearchTake
    \/ \E o \in Outcomes : Response("a", o)
    \/ Retry("a")
    \/ FinishFailure("a")
    \/ Parse("a")
    \/ Tick

SpecOrch == OrchInit /\ [][NextOrch]_vars

\* C4: the breaker state of a source persists across searches: after 5
\* consecutive failed searches, a search started within 300 s of the last
\* failure makes no HTTP fetch.
C4_BreakerPersists ==
    orch.guarded => orch.fetches + req["a"].fetches = 0

(***************************************************************************)
(* Part 3: the change detectors of ScraperManager.  A document of          *)
(* db.products has the fields of SneakerProduct; names are sequences of    *)
(* characters.  The float comparisons are made on exact fractions.         *)
(***************************************************************************)
NoDoc ==
    [sku |-> "", retailer |-> "", name |-> <<>>, price |-> None,
     is_in_stock |-> FALSE, sizes_available |-> {}, last_checked |-> None]

Found(doc) == doc.sku # ""

\* Python's truth value of an Optional[float]
Truthy(x) == x # None /\ x # 0

find_one(docs) == IF docs = {} THEN NoDoc ELSE CHOOSE d \in docs : TRUE

\* find_one with sort=[("last_checked", -1)]
find_one_latest(docs) ==
    IF docs = {} THEN NoDoc
    ELSE CHOOSE d \in docs : \A e \in docs : e.last_checked <= d.last_checked

LowerChar(c) ==
    CASE c = "J" -> "j"
      [] c = "A" -> "a"
      [] OTHER -> c

Lower(str) == [i \in DOMAIN str |-> LowerChar(str[i])]

IsSubstr(w, str) ==
    \E i \in 0..(Len(str) - Len(w)) : SubSeq(str, i + 1, i + Len(w)) = w

RECURSIVE SumPrices(_)
SumPrices(rows) ==
    IF rows = <<>> THEN 0 ELSE Head(rows).price + SumPrices(Tail(rows))

Take(seq, n) == SubSeq(seq, 1, IF Len(seq) < n THEN Len(seq) ELSE n)

\* _is_restock
is_restock(product, products, t) ==
    IF ~product.is_in_stock THEN FALSE
    ELSE LET previous_product ==
                 find_one({d \in products :
                              /\ d.sku = product.sku
                              /\ d.retailer = product.retailer
                              /\ d.last_checked < t - 30})
         IN Found(previous_product) /\ ~previous_product.is_in_stock

\* _is_price_drop: product.price < previous_price * 0.95
is_price_drop(product, products, t) ==
    IF ~Truthy(product.price) THEN FALSE
    ELSE LET previous_product ==
                 find_one({d \in products :
                              /\ d.sku = product.sku
                              /\ d.retailer = product.retailer
                              /\ d.price # None
                              /\ d.last_checked < t - 60})
         IN /\ Found(previous_product)
            /\ Truthy(previous_product.price)
            /\ product.price * 100 < previous_product.price * 95

\* db_manager.get_resell_data: the newest `limit` rows whose sneaker_name
\* matches the name, case-insensitively; resell_data is kept newest first
get_resell_data(resell, sneaker_name, limit) ==
    LET Matches(row) == IsSubstr(Lower(sneaker_name), Lower(row.sneaker_name))
    IN Take(SelectSeq(resell, Matches), limit)

NoFlip ==
    [found |-> FALSE, retail_price |-> None, total |-> 0, sample_size |-> 0]

\* the margin test with > in place of >=
calculate_flip_opportunity_strict(product, resell) ==
    IF ~Truthy(product.price) \/ ~product.is_in_stock THEN NoFlip
    ELSE LET resell_data == get_resell_data(resell, product.name, 10)
         IN IF resell_data = <<>> THEN NoFlip
            ELSE LET total_price == SumPrices(resell_data)
                     n           == Len(resell_data)
                     margin_num  == total_price - product.price * n
                     pct_num     == margin_num * 100
                     pct_den     == n * product.price
                 IN IF pct_num > 25 * pct_den
                    THEN [found |-> TRUE, retail_price |-> product.price,
                          total |-> total_price, sample_size |-> n]
                    ELSE NoFlip

\* _calculate_flip_opportunity: avg = total / n, margin = avg - price,
\* margin_percentage = margin / price * 100, as the fraction pct_num / pct_den
calculate_flip_opportunity(product, resell) ==
    IF ~Truthy(product.price) \/ ~product.is_in_stock THEN NoFlip
    ELSE LET resell_data == get_resell_data(resell, product.name, 10)
         IN IF resell_data = <<>> THEN NoFlip
            ELSE LET total_price == SumPrices(resell_data)
                     n           == Len(resell_data)
                     margin_num  == total_price - product.price * n
                     pct_num     == margin_num * 100
                     pct_den     == n * product.price
                 IN IF pct_num >= 25 * pct_den
                    THEN [found |-> TRUE, retail_price |-> product.price,
                          total |-> total_price, sample_size |-> n]
                    ELSE NoFlip

\* the instant the evaluations start at: day 2 of a month, 12:00
StartMinute == 2160

ProductName == <<"A", "J", "1">>

MkProduct(price, stock, sizes, checked) ==
    [sku |-> "s1", retailer |-> "nike", name |-> ProductName, price |-> price,
     is_in_stock |-> stock, sizes_available |-> sizes, last_checked |-> checked]

Size(n) == [us_size |-> n, is_all_sizes |-> FALSE]
AllSizes == [us_size |-> None, is_all_sizes |-> TRUE]

MkResell(prices) ==
    [i \in DOMAIN prices |-> [sneaker_name |-> ProductName, price |-> prices[i]]]

\* inputs of the detectors
ProbeAges     == {20, 30, 31, 60, 61, 120}
ProbePriors   == {None, 100, 200, 1000}
ProbePrices   == {None, 95, 96, 189, 190, 192, 195, 200, 1000}
ProbeSamples  == {<<>>, <<125>>, <<124>>, <<1249>>, <<1250>>,
                  <<250, 250, 250>>, <<120, 125, 130>>, <<300, 100>>}

EmptyDb ==
    [products |-> {}, users |-> <<>>, tracked_sneakers |-> <<>>,
     resell_data |-> <<>>]

DetectorInit ==
    /\ BreakerInit
    /\ orch = OrchOff
    /\ eng = [pc |-> "off"]
    /\ srch = [pc |-> "off"]
    /\ hm = [pc |-> "off"]
    /\ utcnow = StartMinute
    /\ mon = [pc |-> "off"]
    /\ \E rows \in {{}} \cup
                  {{MkProduct(pr, st, {Size(10)}, StartMinute - age)} :
                      pr \in ProbePriors, st \in BOOLEAN, age \in ProbeAges} :
       \E prices \in ProbeSamples :
          db = [EmptyDb EXCEPT !.products = rows,
                               !.resell_data = MkResell(prices)]
    /\ \E pr \in ProbePrices : \E st \in BOOLEAN :
          probe = [pc |-> "ready",
                   product |-> MkProduct(pr, st, {Size(10)}, StartMinute),
                   restock |-> FALSE, price_drop |-> FALSE, flip |-> NoFlip]

\* the three detectors, applied to the extracted product and the stored data
Detect ==
    /\ probe.pc = "ready"
    /\ probe' = [probe EXCEPT
                   !.pc = "done",
                   !.restock = is_restock(probe.product, db.products, utcnow),
                   !.price_drop = is_price_drop(probe.product, db.products, utcnow),
                   !.flip = calculate_flip_opportunity(probe.product, db.resell_data)]
    /\ UNCHANGED <<utcnow, db, mon>>
    /\ UNCHANGED bvars
    /\ UNCHANGED hm
    /\ UNCHANGED <<eng, srch>>

NextDetector == Detect

SpecDetector == DetectorInit /\ [][NextDetector]_vars

\* C7: with a prior snapshot at least 1 h old, PriceDrop fires exactly when
\* the new price is at most 0.95 times the prior price: 200 to 190 fires,
\* 200 to 192 does not.
C7_PriceDropAtFivePercent ==
    probe.pc = "done" =>
        \A prev \in db.products :
            (/\ prev.price # None
             /\ probe.product.price # None
             /\ prev.last_checked < utcnow - 60) =>
                (probe.price_drop <=>
                    probe.product.price * 100 <= prev.price * 95)

\* the resale samples the flip calculation averages
ProbeSampleCount == Len(db.resell_data)
ProbeSampleTotal == SumPrices(db.resell_data)

MinutesPerDay   == 1440
MinutesPerMonth == 43200     \* months of 30 days
max_free_alerts == 5

\* str.split(): the words between runs of blanks
RECURSIVE SplitFrom(_, _, _, _)
SplitFrom(str, i, cur, acc) ==
    IF i > Len(str)
    THEN IF cur = <<>> THEN acc ELSE Append(acc, cur)
    ELSE IF str[i] = " "
    THEN SplitFrom(str, i + 1, <<>>, IF cur = <<>> THEN acc ELSE Append(acc, cur))
    ELSE SplitFrom(str, i + 1, Append(cur, str[i]), acc)

SplitWords(str) == SplitFrom(str, 1, <<>>, <<>>)

\* User.is_premium
is_premium(user, t) ==
    IF user.tier = "premium"
    THEN IF user.subscription_expires_at = None THEN TRUE
         ELSE t < user.subscription_expires_at
    ELSE FALSE

\* datetime.replace(day=1): the day becomes 1, the time of day stays
replace_day_1(t) ==
    (t \div MinutesPerMonth) * MinutesPerMonth + (t % MinutesPerDay)

\* User.can_send_alert
can_send_alert(user, t) ==
    IF is_premium(user, t) THEN TRUE
    ELSE LET current_month == replace_day_1(t)
             alerts_sent   == IF user.alerts_reset_date < current_month
                              THEN 0 ELSE user.alerts_sent_this_month
         IN alerts_sent < max_free_alerts

\* the size test of _find_matching_products
size_match(tracked_sneaker, product) ==
    \E k \in DOMAIN tracked_sneaker.sizes :
        LET tracked_size == tracked_sneaker.sizes[k]
        IN \/ tracked_size.is_all_sizes
           \/ \E available_size \in product.sizes_available :
                 tracked_size.us_size = available_size.us_size

\* one product against the criteria of _find_matching_products
product_matches(tracked_sneaker, product) ==
    LET keyword_words == SplitWords(Lower(tracked_sneaker.keyword))
        product_name  == Lower(product.name)
    IN /\ \A w \in DOMAIN keyword_words : IsSubstr(keyword_words[w], product_name)
       /\ (tracked_sneaker.sizes # <<>> => size_match(tracked_sneaker, product))
       /\ ((Truthy(tracked_sneaker.max_price) /\ Truthy(product.price)) =>
              ~(product.price > tracked_sneaker.max_price))

find_matching_products(tracked_sneaker, products) ==
    LET Matches(product) == product_matches(tracked_sneaker, product)
    IN SelectSeq(products, Matches)

MkAlert(type, tracked_sneaker, product, savings, flip_data) ==
    [type |-> type, user_telegram_id |-> tracked_sneaker.user_telegram_id,
     tracked_sneaker_id |-> tracked_sneaker.id, product |-> product,
     savings |-> savings, flip_data |-> flip_data]

create_restock_alert(tracked_sneaker, product) ==
    MkAlert("restock", tracked_sneaker, product, None, NoFlip)

\* _create_price_drop_alert: the previous price is that of the latest
\* stored document with a price
create_price_drop_alert(tracked_sneaker, product, products) ==
    LET previous_product ==
            find_one_latest({d \in products :
                                /\ d.sku = product.sku
                                /\ d.retailer = product.retailer
                                /\ d.price # None})
        previous_price == IF Found(previous_product)
                          THEN previous_product.price ELSE product.price
    IN MkAlert("price_drop", tracked_sneaker, product,
               previous_price - product.price, NoFlip)

create_flip_alert(tracked_sneaker, product, flip_data) ==
    MkAlert("flip_opportunity", tracked_sneaker, product, None, flip_data)

\* the body of the product loop of _check_tracked_sneaker
alerts_for_product(tracked_sneaker, product, d, t) ==
    LET flip_data == calculate_flip_opportunity(product, d.resell_data)
    IN (IF /\ "restock" \in tracked_sneaker.alert_types
           /\ is_restock(product, d.products, t)
        THEN <<create_restock_alert(tracked_sneaker, product)>> ELSE <<>>)
       \o
       (IF /\ "price_drop" \in tracked_sneaker.alert_types
           /\ is_price_drop(product, d.products, t)
        THEN <<create_price_drop_alert(tracked_sneaker, product, d.products)>>
        ELSE <<>>)
       \o
       (IF /\ "flip_opportunity" \in tracked_sneaker.alert_types
           /\ flip_data.found
           /\ (flip_data.total - product.price * flip_data.sample_size) * 100
                 >= 25 * flip_data.sample_size * product.price
        THEN <<create_flip_alert(tracked_sneaker, product, flip_data)>>
        ELSE <<>>)

RECURSIVE alerts_for_products(_, _, _, _)
alerts_for_products(tracked_sneaker, products, d, t) ==
    IF products = <<>> THEN <<>>
    ELSE alerts_for_product(tracked_sneaker, Head(products), d, t)
         \o alerts_for_products(tracked_sneaker, Tail(products), d, t)

\* _check_tracked_sneaker
check_tracked_sneaker(tracked_sneaker, current_products, d, t) ==
    IF \/ tracked_sneaker.user_telegram_id \notin DOMAIN d.users
       \/ ~can_send_alert(d.users[tracked_sneaker.user_telegram_id], t)
    THEN <<>>
    ELSE alerts_for_products(tracked_sneaker,
             find_matching_products(tracked_sneaker, current_products), d, t)

\* a grouping that keeps only the first tracked sneaker of a keyword
GroupOfFirst(tracked, keyword) ==
    LET InGroup(ts) == ts.is_active /\ Lower(ts.keyword) = keyword
    IN SubSeq(SelectSeq(tracked, InGroup), 1, 1)

\* _get_grouped_tracked_sneakers: the active tracked sneakers by
\* keyword.lower(), and the keywords in the order of their first sneaker
GroupOf(tracked, keyword) ==
    LET InGroup(ts) == ts.is_active /\ Lower(ts.keyword) = keyword
    IN SelectSeq(tracked, InGroup)

RECURSIVE GroupKeys(_, _)
GroupKeys(tracked, acc) ==
    IF tracked = <<>> THEN acc
    ELSE LET kw == Lower(Head(tracked).keyword)
         IN GroupKeys(Tail(tracked),
                      IF ~Head(tracked).is_active
                         \/ \E i \in DOMAIN acc : acc[i] = kw
                      THEN acc ELSE Append(acc, kw))

\* upsert_product's find_one_and_update with upsert=True
upsert_product(products, product, t) ==
    {d \in products : ~(d.sku = product.sku /\ d.retailer = product.retailer)}
      \cup {[product EXCEPT !.last_checked = t]}

\* the subscribers, tracked sneakers and stored data the cycle starts from
FreeUser(id, sent, reset) ==
    [telegram_id |-> id, tier |-> "free", subscription_expires_at |-> None,
     alerts_sent_this_month |-> sent, alerts_reset_date |-> reset]
PremiumUser(id, sent, reset) ==
    [telegram_id |-> id, tier |-> "premium", subscription_expires_at |-> None,
     alerts_sent_this_month |-> sent, alerts_reset_date |-> reset]

\* user 1 was created on day 1 of this month at 10:00 or at 15:00
UserChoices ==
    {FreeUser(1, 0, 600), FreeUser(1, 5, 600), FreeUser(1, 5, 900),
     PremiumUser(1, 5, 900)}

Track(id, user, keyword, sizes, max_price, types) ==
    [id |-> id, user_telegram_id |-> user, keyword |-> keyword, sizes |-> sizes,
     max_price |-> max_price, alert_types |-> types, is_active |-> TRUE]

TrackAny(id, user) ==
    Track(id, user, <<"J", "1">>, <<AllSizes>>, None,
          {"restock", "price_drop", "flip_opportunity"})
TrackSize(id, user) ==
    Track(id, user, <<"a", "j", " ", "1">>, <<Size(10)>>, None,
          {"restock", "flip_opportunity"})
TrackCheap(id, user) ==
    Track(id, user, <<"j", "1">>, <<AllSizes>>, 150,
          {"price_drop", "flip_opportunity"})

\* a tracked sneaker the subscriber has removed
Inactive(tracked_sneaker) == [tracked_sneaker EXCEPT !.is_active = FALSE]

TrackedChoices ==
    {<<TrackAny(1, 1), TrackCheap(2, 2)>>,
     <<TrackAny(1, 1), Inactive(TrackSize(2, 2))>>,
     <<TrackAny(1, 1), TrackSize(2, 2)>>,
     <<TrackCheap(1, 1), TrackAny(2, 2)>>,
     <<TrackSize(1, 1), TrackAny(2, 2)>>}

\* the stored snapshot: none, or <<price, in stock, age in minutes>>
StoredChoices == {<<100, FALSE, 40>>, <<100, FALSE, 20>>,
                  <<200, TRUE, 120>>, <<200, TRUE, 30>>}
ResellChoices == {<<>>, <<250>>}

\* what a search can extract
ExtractPrices == {None, 100, 189, 195}
ExtractSizes  == {{Size(10)}, {Size(11)}}

MonitorInit ==
    /\ BreakerInit
    /\ orch = OrchOff
    /\ eng = [pc |-> "off"]
    /\ srch = [pc |-> "off"]
    /\ hm = [pc |-> "off"]
    /\ probe = [pc |-> "off"]
    /\ utcnow = StartMinute
    /\ \E u \in UserChoices : \E tracked \in TrackedChoices :
       \E rows \in {{}} \cup {{MkProduct(c[1], c[2], {Size(10)}, StartMinute - c[3])} :
                                c \in StoredChoices} :
       \E prices \in ResellChoices :
          db = [products |-> rows,
                users |-> <<u, FreeUser(2, 0, 600)>>,
                tracked_sneakers |-> tracked,
                resell_data |-> MkResell(prices)]
    /\ mon = [pc |-> "idle", keys |-> <<>>, tasks |-> <<>>, alerts |-> <<>>,
              prior |-> {}]

\* monitor_tracked_sneakers up to the creation of the keyword tasks
MonitorStart ==
    /\ mon.pc = "idle"
    /\ LET keys == GroupKeys(db.tracked_sneakers, <<>>)
       IN mon' = [mon EXCEPT
                    !.pc = IF keys = <<>> THEN "done" ELSE "running",
                    !.keys = keys,
                    !.tasks = [k \in DOMAIN keys |->
                                 [pc |-> "search", keyword |-> keys[k],
                                  sneakers |-> GroupOf(db.tracked_sneakers, keys[k]),
                                  products |-> <<>>, i |-> 1, alerts |-> <<>>,
                                  searches |-> 0, checked |-> {}]],
                    !.prior = db.products]
    /\ UNCHANGED <<utcnow, db, probe>>
    /\ UNCHANGED bvars
    /\ UNCHANGED hm
    /\ UNCHANGED <<eng, srch>>

\* search_all_retailers: the products the scrapers extract for the keyword
Extract(k) ==
    /\ mon.pc = "running"
    /\ k \in DOMAIN mon.tasks
    /\ mon.tasks[k].pc = "search"
    /\ \E found \in {<<>>} \cup
                    {<<MkProduct(pr, st, sz, utcnow)>> :
                        pr \in ExtractPrices, st \in BOOLEAN, sz \in ExtractSizes} :
         mon' = [mon EXCEPT !["tasks"][k].products = found,
                            !["tasks"][k].searches = @ + 1,
                            !["tasks"][k].pc =
                                IF found = <<>> THEN "done" ELSE "upsert"]
    /\ UNCHANGED <<utcnow, db, probe>>
    /\ UNCHANGED bvars
    /\ UNCHANGED hm
    /\ UNCHANGED <<eng, srch>>

\* _search_retailer stores the next product it found
Upsert(k) ==
    /\ mon.pc = "running"
    /\ k \in DOMAIN mon.tasks
    /\ mon.tasks[k].pc = "upsert"
    /\ LET task    == mon.tasks[k]
           product == task.products[task.i]
       IN /\ db' = [db EXCEPT !.products = upsert_product(@, product, utcnow)]
          /\ mon' = [mon EXCEPT
                       !["tasks"][k].products[task.i].last_checked = utcnow,
                       !["tasks"][k].i = IF task.i = Len(task.products) THEN 1
                                         ELSE task.i + 1,
                       !["tasks"][k].pc = IF task.i = Len(task.products)
                                          THEN "check" ELSE "upsert"]
    /\ UNCHANGED <<utcnow, probe>>
    /\ UNCHANGED bvars
    /\ UNCHANGED hm
    /\ UNCHANGED <<eng, srch>>

\* _monitor_keyword checks the next tracked sneaker of the group
CheckTracked(k) ==
    /\ mon.pc = "running"
    /\ k \in DOMAIN mon.tasks
    /\ mon.tasks[k].pc = "check"
    /\ LET task == mon.tasks[k]
           sneaker_alerts ==
               check_tracked_sneaker(task.sneakers[task.i], task.products,
                                     db, utcnow)
       IN mon' = [mon EXCEPT
                    !["tasks"][k].alerts = @ \o sneaker_alerts,
                    !["tasks"][k].checked = @ \cup {task.sneakers[task.i].id},
                    !["tasks"][k].i = task.i + 1,
                    !["tasks"][k].pc = IF task.i = Len(task.sneakers)
                                       THEN "done" ELSE "check"]
    /\ UNCHANGED <<utcnow, db, probe>>
    /\ UNCHANGED bvars
    /\ UNCHANGED hm
    /\ UNCHANGED <<eng, srch>>

RECURSIVE GatherAlerts(_, _)
GatherAlerts(tasks, k) ==
    IF k > Len(tasks) THEN <<>>
    ELSE tasks[k].alerts \o GatherAlerts(tasks, k + 1)

\* asyncio.gather has every task's result: the alerts of the cycle
MonitorEnd ==
    /\ mon.pc = "running"
    /\ \A k \in DOMAIN mon.tasks : mon.tasks[k].pc = "done"
    /\ mon' = [mon EXCEPT !.pc = "done", !.alerts = GatherAlerts(mon.tasks, 1)]
    /\ UNCHANGED <<utcnow, db, probe>>
    /\ UNCHANGED bvars
    /\ UNCHANGED hm
    /\ UNCHANGED <<eng, srch>>

NextMonitor ==
    \/ MonitorStart
    \/ \E k \in 1..2 : Extract(k)
    \/ \E k \in 1..2 : Upsert(k)
    \/ \E k \in 1..2 : CheckTracked(k)
    \/ MonitorEnd

SpecMonitor == MonitorInit /\ [][NextMonitor]_vars

\* the alerts of the finished cycle of one type for one tracked sneaker
AlertsOf(type, tracked_sneaker) ==
    {a \in DOMAIN mon.alerts :
        /\ mon.alerts[a].type = type
        /\ mon.alerts[a].tracked_sneaker_id = tracked_sneaker.id}

\* the subscriber of the tracked sneaker may be sent alerts and the product
\* meets the tracked sneaker's criteria
Subscribed(tracked_sneaker, product) ==
    /\ can_send_alert(db.users[tracked_sneaker.user_telegram_id], utcnow)
    /\ product_matches(tracked_sneaker, product)

\* the product the cycle extracted for task k, whose stored snapshot at the
\* start of the cycle was prev
Extracted(k, product, prev) ==
    /\ mon.pc = "done"
    /\ k \in DOMAIN mon.tasks
    /\ mon.tasks[k].products = <<product>>
    /\ prev \in mon.prior
    /\ prev.sku = product.sku
    /\ prev.retailer = product.retailer

\* C6: when the stored snapshot is out of stock and at least 30 minutes old
\* and the cycle extracts the product in stock at the same price, every
\* matching subscriber with restock alerts enabled gets exactly one Restock
\* alert, and no PriceDrop alert is emitted.
C6_RestockAfterOutOfStock ==
    \A k \in DOMAIN mon.tasks : \A prev \in mon.prior :
        LET task    == mon.tasks[k]
            product == task.products[1]
        IN (/\ task.products # <<>>
            /\ Extracted(k, product, prev)
            /\ ~prev.is_in_stock
            /\ prev.last_checked <= utcnow - 30
            /\ product.is_in_stock
            /\ product.price = prev.price)
           => /\ \A j \in DOMAIN task.sneakers :
                    (/\ Subscribed(task.sneakers[j], product)
                     /\ "restock" \in task.sneakers[j].alert_types)
                    => Cardinality(AlertsOf("restock", task.sneakers[j])) = 1
              /\ \A a \in DOMAIN mon.alerts : mon.alerts[a].type # "price_drop"

\* C8: when the stored price is 200 and the cycle extracts 189, every
\* matching subscriber with price-drop alerts enabled gets exactly one
\* PriceDrop alert whose savings is 11; extracting 195 emits no PriceDrop
\* alert.
C8_PriceDropSavings ==
    \A k \in DOMAIN mon.tasks : \A prev \in mon.prior :
        LET task    == mon.tasks[k]
            product == task.products[1]
        IN (/\ task.products # <<>>
            /\ Extracted(k, product, prev)
            /\ prev.price = 200
            /\ prev.last_checked < utcnow - 60)
           => /\ product.price = 189 =>
                    \A j \in DOMAIN task.sneakers :
                       (/\ Subscribed(task.sneakers[j], product)
                        /\ "price_drop" \in task.sneakers[j].alert_types)
                       => /\ Cardinality(AlertsOf("price_drop", task.sneakers[j])) = 1
                          /\ \A a \in AlertsOf("price_drop", task.sneakers[j]) :
                                mon.alerts[a].savings = 11
              /\ product.price = 195 =>
                    \A a \in DOMAIN mon.alerts : mon.alerts[a].type # "price_drop"

\* the free-tier quota of the month of t is used up
QuotaExhausted(user, t) ==
    /\ user.tier = "free"
    /\ user.alerts_reset_date \div MinutesPerMonth = t \div MinutesPerMonth
    /\ user.alerts_sent_this_month >= max_free_alerts

\* the tracked sizes are specific and none of them is available
SizeMissing(tracked_sneaker, product) ==
    /\ tracked_sneaker.sizes # <<>>
    /\ \A s \in DOMAIN tracked_sneaker.sizes :
          /\ ~tracked_sneaker.sizes[s].is_all_sizes
          /\ \A available_size \in product.sizes_available :
                available_size.us_size # tracked_sneaker.sizes[s].us_size

\* both prices are set and the product's is above the ceiling
AboveCeiling(tracked_sneaker, product) ==
    /\ tracked_sneaker.max_price # None
    /\ product.price # None
    /\ product.price > tracked_sneaker.max_price

TrackedById(id) ==
    CHOOSE ts \in {db.tracked_sneakers[i] : i \in DOMAIN db.tracked_sneakers} :
        ts.id = id

\* C10: no alert is emitted for a subscriber whose monthly quota is
\* exhausted, nor for a product whose sizes miss the specific tracked sizes,
\* nor for a product priced above the tracked ceiling.
C10_AlertCriteria ==
    \A a \in DOMAIN mon.alerts :
        LET alert == mon.alerts[a]
            ts    == TrackedById(alert.tracked_sneaker_id)
        IN /\ ~QuotaExhausted(db.users[alert.user_telegram_id], utcnow)
           /\ ~SizeMissing(ts, alert.product)
           /\ ~AboveCeiling(ts, alert.product)

(***************************************************************************)
(* Part 5: MonitoringEngine.  The scheduled job monitor_sneakers and       *)
(* add_manual_alert put alerts on alert_queue; the worker process_alerts   *)
(* takes them one by one and hands each to _send_alert.                    *)
(***************************************************************************)
MaxCycles  == 2      \* runs of the monitor_sneakers job
MaxManual  == 1      \* calls of add_manual_alert
EngineTick == 60     \* minutes one clock step advances
MaxEngineTicks == 1  \* clock steps

\* asyncio.Queue(): maxsize defaults to 0
maxsize == 0

\* asyncio.Queue.full
full(queue) == IF maxsize <= 0 THEN FALSE ELSE Len(queue) >= maxsize

\* a get that takes the item that was put last
queue_get_right(queue) ==
    [item |-> queue[Len(queue)], rest |-> SubSeq(queue, 1, Len(queue) - 1)]

\* asyncio.Queue.get: the item that was put first
queue_get(queue) == [item |-> Head(queue), rest |-> Tail(queue)]

\* the alert_data a producer puts
AlertData(user, type) ==
    [user_telegram_id |-> user, sku |-> "s1", type |-> type]

\* what one monitoring cycle hands to the queue
BatchChoices ==
    {<<>>,
     <<AlertData(1, "flip_opportunity")>>,
     <<AlertData(1, "flip_opportunity"), AlertData(2, "flip_opportunity")>>}

ManualChoices == {AlertData(1, "flip_opportunity"), AlertData(2, "restock")}

\* user 1 has had 4 alerts this month, and signed up at 10:00 or at 15:00
EngineUsers ==
    {FreeUser(1, 4, 600), FreeUser(1, 4, 900), PremiumUser(1, 4, 900)}

EngineNew ==
    [pc |-> "new", is_running |-> FALSE, alert_queue |-> <<>>,
     job |-> [pc |-> "idle", alerts |-> <<>>], cycles |-> 0, manual |-> 0,
     worker |-> [pc |-> "none", alert_data |-> <<>>],
     puts |-> 0, sent |-> <<>>, suppressed |-> <<>>, failed |-> <<>>]

EngineInit ==
    /\ BreakerInit
    /\ orch = OrchOff
    /\ mon = [pc |-> "off"]
    /\ probe = [pc |-> "off"]
    /\ srch = [pc |-> "off"]
    /\ hm = [pc |-> "off"]
    /\ utcnow = StartMinute
    /\ \E u \in EngineUsers :
          db = [EmptyDb EXCEPT !.users = <<u, FreeUser(2, 0, 600)>>]
    /\ eng = EngineNew

\* MonitoringEngine.start: the scheduler and the worker task
EngineStart ==
    /\ eng.pc = "new"
    /\ eng' = [eng EXCEPT !.pc = "running", !.is_running = TRUE,
                          !.worker = [pc |-> "get", alert_data |-> <<>>]]
    /\ UNCHANGED <<utcnow, db, mon, probe, srch>>
    /\ UNCHANGED bvars
    /\ UNCHANGED hm

\* monitor_sneakers up to its first put: the alerts of the cycle
JobRun ==
    /\ eng.pc = "running"
    /\ eng.job.pc = "idle"
    /\ eng.cycles < MaxCycles
    /\ \E alerts \in BatchChoices :
          eng' = [eng EXCEPT !.cycles = @ + 1,
                             !.job = IF alerts = <<>>
                                     THEN [pc |-> "idle", alerts |-> <<>>]
                                     ELSE [pc |-> "put", alerts |-> alerts]]
    /\ UNCHANGED <<utcnow, db, mon, probe, srch>>
    /\ UNCHANGED bvars
    /\ UNCHANGED hm

\* await self.alert_queue.put(alert_data) in the loop of monitor_sneakers
JobPut ==
    /\ eng.pc \in {"running", "stopped"}
    /\ eng.job.pc = "put"
    /\ ~full(eng.alert_queue)
    /\ eng' = [eng EXCEPT
                 !.alert_queue = Append(@, [data |-> Head(eng.job.alerts),
                                            seq |-> eng.puts + 1]),
                 !.puts = @ + 1,
                 !.job = IF Tail(eng.job.alerts) = <<>>
                         THEN [pc |-> "idle", alerts |-> <<>>]
                         ELSE [pc |-> "put", alerts |-> Tail(eng.job.alerts)]]
    /\ UNCHANGED <<utcnow, db, mon, probe, srch>>
    /\ UNCHANGED bvars
    /\ UNCHANGED hm

\* add_manual_alert
ManualAlert(alert_data) ==
    /\ eng.pc \in {"running", "stopped"}
    /\ eng.manual < MaxManual
    /\ ~full(eng.alert_queue)
    /\ eng' = [eng EXCEPT
                 !.alert_queue = Append(@, [data |-> alert_data,
                                            seq |-> eng.puts + 1]),
                 !.puts = @ + 1,
                 !.manual = @ + 1]
    /\ UNCHANGED <<utcnow, db, mon, probe, srch>>
    /\ UNCHANGED bvars
    /\ UNCHANGED hm

\* process_alerts takes the next alert; _send_alert up to send_message:
\* a user who cannot be sent alerts makes it return, and when get_user
\* raises, _send_alert logs the error and returns
WorkerGet(ok) ==
    /\ eng.pc \in {"running", "stopped"}
    /\ eng.worker.pc = "get"
    /\ eng.alert_queue # <<>>
    /\ LET got  == queue_get(eng.alert_queue)
           user_id == got.item.data.user_telegram_id
       IN IF ~ok
          THEN eng' = [eng EXCEPT !.alert_queue = got.rest,
                                  !.failed = Append(@, got.item)]
          ELSE IF \/ user_id \notin DOMAIN db.users
                  \/ ~can_send_alert(db.users[user_id], utcnow)
          THEN eng' = [eng EXCEPT !.alert_queue = got.rest,
                                  !.suppressed = Append(@, got.item)]
          ELSE eng' = [eng EXCEPT !.alert_queue = got.rest,
                                  !.worker = [pc |-> "send",
                                              alert_data |-> got.item]]
    /\ UNCHANGED <<utcnow, db, mon, probe, srch>>
    /\ UNCHANGED bvars
    /\ UNCHANGED hm

\* DatabaseManager.create_alert: the alert is stored and the user's
\* counter incremented
create_alert(users, user_id) ==
    [users EXCEPT ![user_id].alerts_sent_this_month = @ + 1]

\* an error handler that puts the alert back on the queue
on_send_error_requeue(queue, item) == Append(queue, item)

\* except Exception in _send_alert: the error is logged, the queue untouched
on_send_error(queue, item) == queue

\* the rest of _send_alert: send_message answers or raises, and after it
\* create_alert stores the alert or raises; either error is logged
WorkerSend(ok, stored) ==
    /\ eng.pc \in {"running", "stopped"}
    /\ eng.worker.pc = "send"
    /\ ok \/ stored
    /\ LET item == eng.worker.alert_data
       IN IF ok
          THEN /\ eng' = [eng EXCEPT
                            !.worker = [pc |-> "get", alert_data |-> <<>>],
                            !.sent = Append(@, [item |-> item, at |-> utcnow,
                                                user |-> db.users[item.data.user_telegram_id]])]
               /\ db' = [db EXCEPT !.users =
                                      IF stored
                                      THEN create_alert(@, item.data.user_telegram_id)
                                      ELSE @]
          ELSE /\ eng' = [eng EXCEPT
                            !.worker = [pc |-> "get", alert_data |-> <<>>],
                            !.alert_queue = on_send_error(@, item),
                            !.failed = Append(@, item)]
               /\ UNCHANGED db
    /\ UNCHANGED <<utcnow, mon, probe, srch>>
    /\ UNCHANGED bvars
    /\ UNCHANGED hm

\* MonitoringEngine.stop: the scheduler is shut down
EngineStop ==
    /\ eng.pc = "running"
    /\ eng' = [eng EXCEPT !.pc = "stopped", !.is_running = FALSE]
    /\ UNCHANGED <<utcnow, db, mon, probe, srch>>
    /\ UNCHANGED bvars
    /\ UNCHANGED hm

\* the application's stop returns and the event loop ends
EngineExit ==
    /\ eng.pc = "stopped"
    /\ eng' = [eng EXCEPT !.pc = "exited"]
    /\ UNCHANGED <<utcnow, db, mon, probe, srch>>
    /\ UNCHANGED bvars
    /\ UNCHANGED hm

EngineClock ==
    /\ eng.pc \in {"running", "stopped"}
    /\ utcnow < StartMinute + MaxEngineTicks * EngineTick
    /\ utcnow' = utcnow + EngineTick
    /\ UNCHANGED <<db, mon, probe, srch, eng>>
    /\ UNCHANGED bvars
    /\ UNCHANGED hm

NextEngine ==
    \/ EngineStart
    \/ JobRun
    \/ JobPut
    \/ \E alert_data \in ManualChoices : ManualAlert(alert_data)
    \/ \E ok \in BOOLEAN : WorkerGet(ok)
    \/ \E ok \in BOOLEAN, stored \in BOOLEAN : WorkerSend(ok, stored)
    \/ EngineStop
    \/ EngineExit
    \/ EngineClock

SpecEngine == EngineInit /\ [][NextEngine]_vars

\* the cooldown of repeated alerts to a user, minutes
AlertCooldown == 120

\* the dedup key of an alert: recipient, item, kind
DedupKey(item) == <<item.data.user_telegram_id, item.data.sku, item.data.type>>

\* C11: no two alerts with the same dedup key (recipient, item, kind) are
\* handed to the notifier within the cooldown window; the later one is
\* suppressed.
C11_NoDuplicateInCooldown ==
    \A i, j \in DOMAIN eng.sent :
        (i < j /\ DedupKey(eng.sent[i].item) = DedupKey(eng.sent[j].item))
        => eng.sent[j].at - eng.sent[i].at >= AlertCooldown

\* the sequence numbers of the alerts the worker has finished with
HandledSeqs ==
    {eng.sent[i].item.seq : i \in DOMAIN eng.sent}
      \cup {eng.failed[i].seq : i \in DOMAIN eng.failed}
      \cup {eng.suppressed[i].seq : i \in DOMAIN eng.suppressed}

\* C12: alerts reach the notifier in the order they were enqueued, one at a
\* time: the deliveries are in increasing enqueue order, the alert being
\* delivered is the only one in progress and every alert enqueued before it
\* is finished, and everything still queued was enqueued later.
C12_FifoDelivery ==
    /\ \A i, j \in DOMAIN eng.sent :
          i < j => eng.sent[i].item.seq < eng.sent[j].item.seq
    /\ eng.worker.pc = "send" =>
          /\ \A n \in 1..(eng.worker.alert_data.seq - 1) : n \in HandledSeqs
          /\ eng.worker.alert_data.seq \notin HandledSeqs
    /\ \A q \in DOMAIN eng.alert_queue :
          /\ \A n \in HandledSeqs : n < eng.alert_queue[q].seq
          /\ eng.worker.pc = "send" =>
                eng.worker.alert_data.seq < eng.alert_queue[q].seq

\* both producers have enqueued and two alerts were delivered
C12_Witness ==
    /\ eng.pc \in {"running", "stopped"}
    /\ eng.manual >= 1
    /\ eng.cycles >= 1
    /\ Len(eng.sent) >= 2
    /\ \E i, j \in DOMAIN eng.sent :
          eng.sent[i].item.data.user_telegram_id
             # eng.sent[j].item.data.user_telegram_id

\* C13: no alert is delivered to a free-tier recipient whose quota of the
\* calendar month (5) was used up when the delivery was made.
C13_FreeQuota ==
    \A i \in DOMAIN eng.sent :
        ~QuotaExhausted(eng.sent[i].user, eng.sent[i].at)

\* C14: the queue never holds more alerts than its capacity.
C14_BoundedQueue == Len(eng.alert_queue) <= maxsize

\* C15: when the engine has exited, no alert is left in the queue or in the
\* worker's hands.
C15_DrainOnShutdown ==
    eng.pc = "exited" =>
        /\ eng.alert_queue = <<>>
        /\ eng.worker.pc = "get"

\* the tasks of the cycle whose keyword is kw but for the case of letters
TasksFor(kw) ==
    {k \in DOMAIN mon.tasks : mon.tasks[k].keyword = Lower(kw)}

\* C17: in a finished Monitor cycle every keyword of an active tracked
\* sneaker, compared without regard to case, has exactly one task, which
\* searched exactly once, and every active tracked sneaker with that keyword
\* was evaluated against the products of that search; nothing else was
\* searched.
C17_OneSearchPerKeyword ==
    mon.pc = "done" =>
        /\ \A t \in DOMAIN db.tracked_sneakers :
              LET ts == db.tracked_sneakers[t]
              IN ts.is_active =>
                   /\ Cardinality(TasksFor(ts.keyword)) = 1
                   /\ \A k \in TasksFor(ts.keyword) :
                         /\ mon.tasks[k].searches = 1
                         /\ mon.tasks[k].products # <<>> =>
                               ts.id \in mon.tasks[k].checked
        /\ \A k \in DOMAIN mon.tasks :
              /\ mon.tasks[k].searches = 1
              /\ \E t \in DOMAIN db.tracked_sneakers :
                    /\ db.tracked_sneakers[t].is_active
                    /\ k \in TasksFor(db.tracked_sneakers[t].keyword)

\* two subscribers track one keyword in different case; one search served both
C17_Witness ==
    /\ mon.pc = "done"
    /\ Len(mon.tasks) = 1
    /\ mon.tasks[1].products # <<>>
    /\ mon.tasks[1].checked = {1, 2}
    /\ db.tracked_sneakers[1].keyword # db.tracked_sneakers[2].keyword

\* ScraperManager.scrapers: the retailers every search queries
NumRetailers == 7
\* settings.concurrent_requests
concurrent_requests == 10
\* RetailerConfig.max_concurrent_requests of nike
max_concurrent_requests == 2

\* the keyword searches in progress; each has one query in flight against
\* every retailer
SearchesInFlight ==
    IF mon.pc = "running"
    THEN Cardinality({k \in DOMAIN mon.tasks : mon.tasks[k].pc = "search"})
    ELSE 0

\* C18: the queries in flight against one source never exceed the source's
\* configured maximum, and the queries in flight in total never exceed the
\* global limit.
C18_ConcurrencyLimits ==
    /\ SearchesInFlight <= max_concurrent_requests
    /\ SearchesInFlight * NumRetailers <= concurrent_requests

(***************************************************************************)
(* Part 6: ScraperHealthMonitor._analyze_health_data, and                  *)
(* ScraperManager.search_with_fallback, which routes a search by the       *)
(* classification.  Success rates are in percent, response times in        *)
(* seconds, the age of the last successful scrape in hours.                *)
(***************************************************************************)
success_rate_critical         == 50
success_rate_warning          == 70
consecutive_failures_warning  == 5
consecutive_failures_critical == 10
stale_data_hours              == 2
response_time_warning         == 5
response_time_critical        == 10

\* "Check consecutive failures"
consecutive_failures_rule(status, consecutive_failures) ==
    IF consecutive_failures >= consecutive_failures_critical THEN "critical"
    ELSE IF consecutive_failures >= consecutive_failures_warning
    THEN IF status \in {"healthy", "warning"} THEN "warning" ELSE status
    ELSE status

\* "Check connectivity", "Check circuit breaker", "Check success rate"
first_rule(health_data) ==
    IF ~health_data.connectivity THEN "down"
    ELSE IF health_data.circuit_breaker_open THEN "critical"
    ELSE IF health_data.success_rate < success_rate_critical THEN "critical"
    ELSE IF health_data.success_rate < success_rate_warning THEN "warning"
    ELSE "healthy"

\* "Check stale data"; hours is the age of the last successful scrape
stale_data_rule(status, hours, total_requests) ==
    IF hours # None
    THEN IF hours > stale_data_hours /\ status = "healthy" THEN "warning"
         ELSE status
    ELSE IF total_requests > 0 THEN "critical"
    ELSE status

\* a response-time rule that sets the status without looking at it
response_time_rule_overwrites(status, response_time_avg) ==
    IF response_time_avg > response_time_critical THEN "warning"
    ELSE IF response_time_avg > response_time_warning
    THEN IF status = "healthy" THEN "warning" ELSE status
    ELSE status

\* "Check response times"
response_time_rule(status, response_time_avg) ==
    IF response_time_avg > response_time_critical
    THEN IF status \in {"healthy", "warning"} THEN "warning" ELSE status
    ELSE IF response_time_avg > response_time_warning
    THEN IF status = "healthy" THEN "warning" ELSE status
    ELSE status

\* _analyze_health_data: the status of the metrics it returns
analyze_health_data(health_data) ==
    response_time_rule(
        stale_data_rule(
            consecutive_failures_rule(first_rule(health_data),
                                      health_data.consecutive_failures),
            health_data.last_successful_scrape,
            health_data.total_requests),
        health_data.response_time_avg)

\* HealthStatus by severity
Severity(status) ==
    CASE status = "healthy"  -> 0
      [] status = "warning"  -> 1
      [] status = "critical" -> 2
      [] status = "down"     -> 3

\* the health data of the classifications checked
HealthRates     == {40, 49, 50, 69, 70, 90}
HealthFailures  == {0, 3, 4, 5, 6, 9, 10}
HealthScrapeAge == {None, 1, 2, 3}
HealthRequests  == {0, 10}
HealthResponse  == {0, 5, 6, 10, 11}

HealthInit ==
    /\ BreakerInit
    /\ orch = OrchOff
    /\ utcnow = 0
    /\ db = EmptyDb
    /\ mon = [pc |-> "off"]
    /\ eng = [pc |-> "off"]
    /\ srch = [pc |-> "off"]
    /\ hm = [pc |-> "off"]
    /\ \E c \in BOOLEAN, b \in BOOLEAN, rate \in HealthRates,
          f \in HealthFailures, age \in HealthScrapeAge,
          n \in HealthRequests, rt \in HealthResponse :
          probe = [pc |-> "health",
                   health_data |-> [connectivity |-> c,
                                    circuit_breaker_open |-> b,
                                    success_rate |-> rate,
                                    consecutive_failures |-> f,
                                    last_successful_scrape |-> age,
                                    total_requests |-> n,
                                    response_time_avg |-> rt],
                   status |-> "healthy"]

\* one call of _analyze_health_data
Analyze ==
    /\ probe.pc = "health"
    /\ probe' = [probe EXCEPT !.pc = "classified",
                              !.status = analyze_health_data(probe.health_data)]
    /\ UNCHANGED <<utcnow, db, mon, eng, srch>>
    /\ UNCHANGED bvars
    /\ UNCHANGED hm

NextHealth == Analyze

SpecHealth == HealthInit /\ [][NextHealth]_vars

\* C19: a source with no connectivity is classified Down whatever its other
\* metrics.
C19_NoConnectivityIsDown ==
    (probe.pc = "classified" /\ ~probe.health_data.connectivity)
    => probe.status = "down"

\* C20: a source with connectivity is classified at least as severely as
\* every matching rule demands: Critical for a success rate below 0.5, an
\* open breaker or 10 or more consecutive failures, at least Warning for 5
\* or more consecutive failures.
C20_AtLeastAsSevere ==
    (probe.pc = "classified" /\ probe.health_data.connectivity) =>
        LET hd == probe.health_data
        IN /\ (\/ hd.success_rate < success_rate_critical
               \/ hd.circuit_breaker_open
               \/ hd.consecutive_failures >= consecutive_failures_critical)
              => probe.status = "critical"
           /\ hd.consecutive_failures >= consecutive_failures_warning
              => Severity(probe.status) >= Severity("warning")

\* rate 0.4 with 3 consecutive failures was classified
C20_Witness ==
    /\ probe.pc = "classified"
    /\ probe.health_data.connectivity
    /\ ~probe.health_data.circuit_breaker_open
    /\ probe.health_data.success_rate = 40
    /\ probe.health_data.consecutive_failures = 3
    /\ probe.health_data.response_time_avg = 11
    /\ probe.status = "critical"

\* the retailers of a search and what a source can return
FallbackRetailers == {"nike", "adidas", "stockx"}
ResultCounts      == {0, 3, 5}

\* the minimum number of results that makes the backup sources unnecessary
min_results == 5

\* a branch that also queues Down sources as backups
task_kind_any_record(status) ==
    IF status = "healthy" THEN "healthy"
    ELSE IF status \in {"warning", "critical", "down"} THEN "backup"
    ELSE "none"

\* the branches of search_with_fallback's loop: a Healthy source gets a
\* task at once, a Warning or Critical one a delayed backup task, and a
\* Down source or one without a health record (status "none") no task
task_kind(status) ==
    IF status = "healthy" THEN "healthy"
    ELSE IF status \in {"warning", "critical"} THEN "backup"
    ELSE "none"

FallbackInit ==
    /\ BreakerInit
    /\ orch = OrchOff
    /\ utcnow = 0
    /\ db = EmptyDb
    /\ mon = [pc |-> "off"]
    /\ eng = [pc |-> "off"]
    /\ probe = [pc |-> "off"]
    /\ hm = [pc |-> "off"]
    /\ \E health \in [FallbackRetailers ->
                         {"healthy", "warning", "critical", "down", "none"}] :
          srch = [pc |-> "idle", health |-> health,
                  tasks |-> [r \in FallbackRetailers |->
                               [kind |-> "none", pc |-> "none", products |-> 0]],
                  all_products |-> 0]

\* search_with_fallback up to its first gather: a task per healthy
\* retailer, and a delayed task per warning or critical retailer
FallbackStart ==
    /\ srch.pc = "idle"
    /\ LET kind(r) == task_kind(srch.health[r])
           tasks == [r \in FallbackRetailers |->
                       [kind |-> kind(r),
                        pc |-> IF kind(r) = "none" THEN "none" ELSE "created",
                        products |-> 0]]
           healthy_tasks == {r \in FallbackRetailers : kind(r) = "healthy"}
           backup_tasks  == {r \in FallbackRetailers : kind(r) = "backup"}
       IN srch' = [srch EXCEPT
                     !.tasks = tasks,
                     !.pc = IF healthy_tasks # {} THEN "gather_healthy"
                            ELSE IF backup_tasks # {} THEN "gather_backup"
                            ELSE "returned"]
    /\ UNCHANGED <<utcnow, db, mon, probe, eng>>
    /\ UNCHANGED bvars
    /\ UNCHANGED hm

\* a task reaches search_products: at once for _search_with_monitoring,
\* after asyncio.sleep(delay) for _search_with_delay, by when the healthy
\* tasks have started
TaskFetch(r) ==
    /\ srch.pc # "idle"
    /\ srch.tasks[r].pc = "created"
    /\ srch.tasks[r].kind = "backup" =>
          \A h \in FallbackRetailers :
             srch.tasks[h].kind = "healthy" => srch.tasks[h].pc # "created"
    /\ srch' = [srch EXCEPT !.tasks[r].pc = "fetching"]
    /\ UNCHANGED <<utcnow, db, mon, probe, eng>>
    /\ UNCHANGED bvars
    /\ UNCHANGED hm

\* the search of a task returns its products
TaskDone(r, n) ==
    /\ srch.tasks[r].pc = "fetching"
    /\ srch' = [srch EXCEPT !.tasks[r].pc = "done", !.tasks[r].products = n]
    /\ UNCHANGED <<utcnow, db, mon, probe, eng>>
    /\ UNCHANGED bvars
    /\ UNCHANGED hm

RECURSIVE SumProducts(_, _)
SumProducts(tasks, rs) ==
    IF rs = {} THEN 0
    ELSE LET r == CHOOSE x \in rs : TRUE
         IN tasks[r].products + SumProducts(tasks, rs \ {r})

TasksOfKind(kind) == {r \in FallbackRetailers : srch.tasks[r].kind = kind}

\* gather(*healthy_tasks) has every result; the backup tasks are awaited
\* only if the products are fewer than 5
GatherHealthy ==
    /\ srch.pc = "gather_healthy"
    /\ \A r \in TasksOfKind("healthy") : srch.tasks[r].pc = "done"
    /\ LET all_products == SumProducts(srch.tasks, TasksOfKind("healthy"))
       IN srch' = [srch EXCEPT
                     !.all_products = all_products,
                     !.pc = IF all_products < min_results
                               /\ TasksOfKind("backup") # {}
                            THEN "gather_backup" ELSE "returned"]
    /\ UNCHANGED <<utcnow, db, mon, probe, eng>>
    /\ UNCHANGED bvars
    /\ UNCHANGED hm

\* gather(*backup_tasks) has every result
GatherBackup ==
    /\ srch.pc = "gather_backup"
    /\ \A r \in TasksOfKind("backup") : srch.tasks[r].pc = "done"
    /\ srch' = [srch EXCEPT
                  !.all_products = @ + SumProducts(srch.tasks, TasksOfKind("backup")),
                  !.pc = "returned"]
    /\ UNCHANGED <<utcnow, db, mon, probe, eng>>
    /\ UNCHANGED bvars
    /\ UNCHANGED hm

NextFallback ==
    \/ FallbackStart
    \/ \E r \in FallbackRetailers : TaskFetch(r)
    \/ \E r \in FallbackRetailers : \E n \in ResultCounts : TaskDone(r, n)
    \/ GatherHealthy
    \/ GatherBackup

SpecFallback == FallbackInit /\ [][NextFallback]_vars

\* C16: when the healthy sources of a search have returned 5 or more
\* results, no warning or critical source has been fetched for that search.
C16_BackupOnlyWhenShort ==
    (/\ srch.pc \in {"gather_healthy", "gather_backup", "returned"}
     /\ TasksOfKind("healthy") # {}
     /\ \A r \in TasksOfKind("healthy") : srch.tasks[r].pc = "done"
     /\ SumProducts(srch.tasks, TasksOfKind("healthy")) >= min_results)
    => \A r \in TasksOfKind("backup") : srch.tasks[r].pc = "created"

(***************************************************************************)
(* Part 7: ScraperHealthMonitor.check_scraper_health with its alerts, as   *)
(* run by search_with_fallback, check_all_scrapers_health and              *)
(* auto_heal_scrapers, and the healing attempt of auto_heal_scrapers.      *)
(* The runs are for one retailer; timestamps are datetime.now(), seconds.  *)
(***************************************************************************)
MaxRuns     == 2      \* classification runs started
HmTickStep  == 150    \* seconds one clock step advances
MaxHmTime   == 300    \* the clock stops here

alert_cooldown == 300

Runs        == {"r1", "r2"}
RunOrigins  == {"search", "check", "heal"}

\* what health_check and the analysis can give: a status with the error
\* patterns found, or an exception of health_check
MetricsChoices ==
    {[status |-> "healthy",  error_patterns |-> {}, raised |-> FALSE],
     [status |-> "warning",  error_patterns |-> {"site_changes"}, raised |-> FALSE],
     [status |-> "critical", error_patterns |-> {}, raised |-> FALSE],
     [status |-> "critical", error_patterns |-> {"site_changes", "rate_limiting"},
      raised |-> FALSE],
     [status |-> "down",     error_patterns |-> {}, raised |-> FALSE]}

\* the metrics of the except branch of check_scraper_health
ExceptionMetrics ==
    [status |-> "down", error_patterns |-> {"exception"}, raised |-> TRUE]

IdleRun ==
    [pc |-> "idle", origin |-> "none", metrics |-> <<>>, now |-> 0,
     alerts_to_send |-> <<>>, covered |-> FALSE, trial_ok |-> FALSE,
     healing_result |-> "none"]

HmInit ==
    /\ BreakerInit
    /\ orch = OrchOff
    /\ utcnow = 0
    /\ db = EmptyDb
    /\ mon = [pc |-> "off"]
    /\ eng = [pc |-> "off"]
    /\ probe = [pc |-> "off"]
    /\ srch = [pc |-> "off"]
    /\ hm = [pc |-> "on", last_alerts |-> None, alert_history |-> <<>>,
             runs |-> [r \in Runs |-> IdleRun], started |-> 0]

\* check_scraper_health is entered and awaits scraper.health_check()
RunStart(r, origin) ==
    /\ hm.pc = "on"
    /\ hm.runs[r].pc = "idle"
    /\ hm.started < MaxRuns
    /\ hm' = [hm EXCEPT !.started = @ + 1,
                        !.runs[r] = [IdleRun EXCEPT !.pc = "health_check",
                                                    !.origin = origin]]
    /\ UNCHANGED <<utcnow, db, mon, probe, eng, srch>>
    /\ UNCHANGED bvars

\* the alerts _check_for_alerts builds, in its order
alerts_to_send(metrics) ==
    (IF metrics.status \in {"critical", "down"}
     THEN <<"status_critical">> ELSE <<>>)
    \o (IF "site_changes" \in metrics.error_patterns
        THEN <<"site_changes">> ELSE <<>>)
    \o (IF "rate_limiting" \in metrics.error_patterns
        THEN <<"rate_limiting">> ELSE <<>>)

\* a status_critical alert of the last alert_cooldown seconds is on record
RecentCritical(history, t) ==
    \E a \in DOMAIN history :
        /\ history[a].alert_type = "status_critical"
        /\ t - history[a].timestamp < alert_cooldown

\* the state of a run that has returned from check_scraper_health
AfterCheck(run, history, t) ==
    [run EXCEPT !.pc = IF run.origin = "heal"
                          /\ run.metrics.status \in {"critical", "down"}
                       THEN "heal" ELSE "finished",
                !.covered = RecentCritical(history, t)]

\* health_check has answered and the metrics are analysed and stored; an
\* exception of health_check gives DOWN metrics and skips the alerts
RunClassify(r) ==
    /\ hm.runs[r].pc = "health_check"
    /\ \/ \E metrics \in MetricsChoices :
             hm' = [hm EXCEPT !.runs[r].metrics = metrics,
                              !.runs[r].pc = "check_for_alerts"]
       \/ hm' = [hm EXCEPT !.runs[r] =
                    AfterCheck([hm.runs[r] EXCEPT !.metrics = ExceptionMetrics],
                               hm.alert_history, now)]
    /\ UNCHANGED <<utcnow, db, mon, probe, eng, srch>>
    /\ UNCHANGED bvars

\* _check_for_alerts: "Check cooldown"
in_cooldown(last_alert, t) ==
    last_alert # None /\ t - last_alert < alert_cooldown

\* _check_for_alerts up to its first _send_alert
RunCheckForAlerts(r) ==
    /\ hm.runs[r].pc = "check_for_alerts"
    /\ LET run == hm.runs[r]
           to_send == alerts_to_send(run.metrics)
       IN IF in_cooldown(hm.last_alerts, now) \/ to_send = <<>>
          THEN hm' = [hm EXCEPT !.runs[r] = AfterCheck(run, hm.alert_history, now)]
          ELSE hm' = [hm EXCEPT !.runs[r].pc = "send_alert",
                                !.runs[r].now = now,
                                !.runs[r].alerts_to_send = to_send]
    /\ UNCHANGED <<utcnow, db, mon, probe, eng, srch>>
    /\ UNCHANGED bvars

\* one turn of the loop "Send alerts": _send_alert records the alert, then
\* last_alerts is set
RunSendAlert(r) ==
    /\ hm.runs[r].pc = "send_alert"
    /\ LET run == hm.runs[r]
           history == Append(hm.alert_history,
                             [retailer |-> "nike",
                              alert_type |-> Head(run.alerts_to_send),
                              timestamp |-> run.now, run |-> r])
           rest == Tail(run.alerts_to_send)
       IN hm' = [hm EXCEPT
                   !.alert_history = history,
                   !.last_alerts = run.now,
                   !.runs[r] = IF rest = <<>>
                               THEN AfterCheck([run EXCEPT !.alerts_to_send = rest],
                                               history, now)
                               ELSE [run EXCEPT !.alerts_to_send = rest]]
    /\ UNCHANGED <<utcnow, db, mon, probe, eng, srch>>
    /\ UNCHANGED bvars

\* _search_with_monitoring as _attempt_scraper_healing sees it: the length
\* of the list it returns, which is empty when the search raised
search_with_monitoring_result(ok) == IF ok THEN Len(<<"product">>) ELSE Len(<<>>)

\* _attempt_scraper_healing: "Even empty list is success"
healing_result(test_result, ok) ==
    IF test_result # None THEN "healed" ELSE "healing_failed"

\* _attempt_scraper_healing: the breaker fields of a scraper instance are
\* reset, then the trial search succeeds or raises
RunHeal(r, ok) ==
    /\ hm.runs[r].pc = "heal"
    /\ failure_count' = 0
    /\ last_failure_time' = None
    /\ hm' = [hm EXCEPT
                !.runs[r].pc = "finished",
                !.runs[r].trial_ok = ok,
                !.runs[r].healing_result =
                    healing_result(search_with_monitoring_result(ok), ok)]
    /\ UNCHANGED <<utcnow, db, mon, probe, eng, srch>>
    /\ UNCHANGED <<now, health_stats, req, hist, orch>>

\* the caller has the result of the run
RunEnd(r) ==
    /\ hm.runs[r].pc = "finished"
    /\ hm' = [hm EXCEPT !.runs[r] = IdleRun]
    /\ UNCHANGED <<utcnow, db, mon, probe, eng, srch>>
    /\ UNCHANGED bvars

HmClock ==
    /\ hm.pc = "on"
    /\ now < MaxHmTime
    /\ now' = now + HmTickStep
    /\ UNCHANGED <<failure_count, last_failure_time, health_stats, req, hist, orch>>
    /\ UNCHANGED mvars

NextHm ==
    \/ \E r \in Runs : \E origin \in RunOrigins : RunStart(r, origin)
    \/ \E r \in Runs : RunClassify(r)
    \/ \E r \in Runs : RunCheckForAlerts(r)
    \/ \E r \in Runs : RunSendAlert(r)
    \/ \E r \in Runs : \E ok \in BOOLEAN : RunHeal(r, ok)
    \/ \E r \in Runs : RunEnd(r)
    \/ HmClock

SpecHm == HmInit /\ [][NextHm]_vars

\* C21: no two health alerts of the same source and type are raised within
\* the alert cooldown of each other, also when classification runs overlap.
C21_NoRepeatedHealthAlert ==
    \A i, j \in DOMAIN hm.alert_history :
        (/\ i < j
         /\ hm.alert_history[i].retailer = hm.alert_history[j].retailer
         /\ hm.alert_history[i].alert_type = hm.alert_history[j].alert_type)
        => hm.alert_history[j].timestamp - hm.alert_history[i].timestamp
              >= alert_cooldown

\* C22: a classification run that found the source Critical or Down has
\* returned only with a status alert for the source on record from the last
\* cooldown window, raised by this run unless one was there already.
C22_CriticalRaisesAlert ==
    \A r \in Runs :
        (/\ hm.runs[r].pc \in {"heal", "finished"}
         /\ hm.runs[r].metrics.status \in {"critical", "down"})
        => hm.runs[r].covered

\* C23: auto-heal reports a source as healed only when the trial search
\* succeeded.
C23_HealedOnlyOnSuccess ==
    \A r \in Runs :
        hm.runs[r].healing_result = "healed" => hm.runs[r].trial_ok

\* a run that has been entered and has not returned
InProgress(r) == hm.runs[r].pc \notin {"idle", "finished"}

\* C24: at no time are two classification runs, or two auto-heal
\* executions, in progress together.
C24_SingleRun ==
    Cardinality({r \in Runs : InProgress(r)}) <= 1

(***************************************************************************)
(* Part 8: confidence scoring of extracted records                         *)
(*                                                                         *)
(* A record is the dict a strategy extracted.  Each required field and     *)
(* the title is kept by what _validate_product_data can tell of it:        *)
(* "absent" (no key), "empty" ("" or 0), "bad" (a value the content check  *)
(* rejects) or "good"; important holds the important fields with a truthy  *)
(* value.  Scores are exact, in 140ths:                                    *)
(*   (a*0.7 + b*0.3)/7 - c*0.2  =  (14a + 6b - 28c)/140,                   *)
(* and selector confidence found/4 = 35*found/140.  Every comparison the   *)
(* code makes on the float score (> 0.1, > 0.3, > 0.5, min) has the same   *)
(* outcome on the exact value.                                             *)
(***************************************************************************)
required_fields  == <<"name", "price", "url">>
important_fields == <<"brand", "model", "sku", "image">>

Range(seq) == {seq[i] : i \in DOMAIN seq}

FieldStates == {"absent", "empty", "bad", "good"}
TitleStates == {"absent", "bad", "good"}

Records ==
    [name : FieldStates, price : FieldStates, url : FieldStates,
     title : TitleStates, important : SUBSET Range(important_fields)]

\* field not in data or not data[field]
missing_fields(data) ==
    {f \in Range(required_fields) : data[f] \in {"absent", "empty"}}

\* name = data.get("name") or data.get("title", "")
name_or_title(data) ==
    IF data.name \in {"bad", "good"} THEN data.name
    ELSE IF data.title = "absent" THEN "empty"
    ELSE data.title

\* the content checks on price, name/title and url
invalid_fields(data) ==
    {f \in Range(required_fields) :
        \/ f = "price" /\ data.price \in {"empty", "bad"}
        \/ f = "name" /\ (data.name # "absent" \/ data.title # "absent")
                      /\ name_or_title(data) # "good"
        \/ f = "url" /\ data.url \in {"empty", "bad"}}

valid_required(data) == Len(required_fields) - Cardinality(missing_fields(data))

valid_important(data) == Cardinality(data.important)

total_possible_fields == Len(required_fields) + Len(important_fields)

\* max(0, (valid_required*0.7 + valid_important*0.3)/7 - invalid*0.1): a
\* penalty of 0.1 for each invalid field
confidence_score_light_penalty(data) ==
    LET raw == 2 * (7 * valid_required(data) + 3 * valid_important(data))
                 - 14 * Cardinality(invalid_fields(data))
    IN  IF raw > 0 THEN raw ELSE 0

\* max(0, (valid_required*0.7 + valid_important*0.3)/total_possible_fields
\*        - len(invalid_fields)*0.2), in 140ths
confidence_score(data) ==
    LET raw == 2 * (7 * valid_required(data) + 3 * valid_important(data))
                 - 28 * Cardinality(invalid_fields(data))
    IN  IF raw > 0 THEN raw ELSE 0

is_valid(data) == missing_fields(data) = {} /\ invalid_fields(data) = {}

\* the thresholds of the strategies, in 140ths: 0.5, 0.3, 0.1
script_json_threshold     == 70
html_structured_threshold == 42
html_fallback_threshold   == 14

\* data_quality["min_confidence_score"] = 0.3, in 140ths
min_confidence_score == 42

FailedResult(m) == [success |-> FALSE, method |-> m, confidence |-> 0]

\* _try_json_ld_parsing on a page whose Product item is data
try_json_ld_parsing(data) ==
    IF is_valid(data)
    THEN [success |-> TRUE, method |-> "json_ld",
          confidence |-> confidence_score(data)]
    ELSE FailedResult("json_ld")

\* _try_script_json_parsing on a page whose product object is data
try_script_json_parsing(data) ==
    IF confidence_score(data) > script_json_threshold
    THEN [success |-> TRUE, method |-> "script_json",
          confidence |-> confidence_score(data)]
    ELSE FailedResult("script_json")

\* the selectors of _try_structured_html_parsing that found a value, of the
\* four (title, price, image, sku)
selectors_found(data) ==
    Cardinality({f \in {"title", "price"} : data[f] # "absent"})
        + Cardinality(data.important \cap {"image", "sku"})

\* _try_structured_html_parsing: confidence = min(found/4, score)
try_structured_html_parsing(data) ==
    IF confidence_score(data) > html_structured_threshold
    THEN [success |-> TRUE, method |-> "html_structured",
          confidence |-> IF 35 * selectors_found(data) < confidence_score(data)
                         THEN 35 * selectors_found(data)
                         ELSE confidence_score(data)]
    ELSE FailedResult("html_structured")

\* _try_fallback_html_parsing returns the score whether it succeeded or not
try_fallback_html_parsing(data) ==
    [success |-> confidence_score(data) > html_fallback_threshold,
     method |-> "html_fallback",
     confidence |-> confidence_score(data)]

\* what each strategy can put into its record
Extractable(m) ==
    CASE m = "json_ld" -> Records
      [] m = "script_json" ->
            \* _extract_product_from_json wants one required key at least
            {d \in Records : \E f \in Range(required_fields) : d[f] # "absent"}
      [] m = "html_structured" ->
            \* {"url": url} and the non-empty texts of title, price, image, sku
            {d \in Records : /\ d.name = "absent"
                             /\ d.url = "good"
                             /\ d.price \in {"absent", "bad", "good"}
                             /\ d.important \subseteq {"image", "sku"}}
      [] m = "html_fallback" ->
            \* {"url": url}, a price of 10..2000, a title longer than 5, an image
            {d \in Records : /\ d.name = "absent"
                             /\ d.url = "good"
                             /\ d.price \in {"absent", "good"}
                             /\ d.title \in {"absent", "good"}
                             /\ d.important \subseteq {"image"}}

\* the fallback's record on a page where it finds nothing but the url
BarePage ==
    [name |-> "absent", price |-> "absent", url |-> "good",
     title |-> "absent", important |-> {}]

strategy_result(m, data) ==
    CASE m = "json_ld" -> try_json_ld_parsing(data)
      [] m = "script_json" -> try_script_json_parsing(data)
      [] m = "html_structured" -> try_structured_html_parsing(data)
      [] m = "html_fallback" -> try_fallback_html_parsing(data)

\* _try_multiple_parsing_methods on a page from which strategy m extracts
\* data and the other strategies extract nothing
parse_page(m, data) ==
    LET ok == [i \in 1..4 |-> Strategies[i] = m
                              /\ strategy_result(m, data).success]
        r  == try_multiple_parsing_methods(ok)
    IN  IF r.success THEN strategy_result(r.method, data)
        ELSE IF m = "html_fallback" THEN try_fallback_html_parsing(data)
        ELSE try_fallback_html_parsing(BarePage)

ConfidenceInit ==
    /\ BreakerInit
    /\ orch = OrchOff
    /\ utcnow = 0
    /\ db = EmptyDb
    /\ mon = [pc |-> "off"]
    /\ eng = [pc |-> "off"]
    /\ srch = [pc |-> "off"]
    /\ hm = [pc |-> "off"]
    /\ \E data \in Records : probe = [pc |-> "record", data |-> data]

\* one page goes through _try_multiple_parsing_methods
ParsePage(m) ==
    /\ probe.pc = "record"
    /\ probe.data \in Extractable(m)
    /\ probe' = [pc |-> "parsed", data |-> probe.data,
                 result |-> parse_page(m, probe.data)]
    /\ UNCHANGED <<utcnow, db, mon, eng, srch>>
    /\ UNCHANGED bvars
    /\ UNCHANGED hm

\* the same record with one required field or the title in another state
ChangeField(f, v) ==
    /\ probe.pc = "record"
    /\ probe.data[f] # v
    /\ probe' = [pc |-> "changed", before |-> probe.data,
                 data |-> [probe.data EXCEPT ![f] = v], field |-> f]
    /\ UNCHANGED <<utcnow, db, mon, eng, srch>>
    /\ UNCHANGED bvars
    /\ UNCHANGED hm

\* the same record with one important field more
AddImportant(f) ==
    /\ probe.pc = "record"
    /\ f \notin probe.data.important
    /\ probe' = [pc |-> "changed", before |-> probe.data,
                 data |-> [probe.data EXCEPT !.important = @ \cup {f}],
                 field |-> f]
    /\ UNCHANGED <<utcnow, db, mon, eng, srch>>
    /\ UNCHANGED bvars
    /\ UNCHANGED hm

NextConfidence ==
    \/ \E m \in Range(Strategies) : ParsePage(m)
    \/ \E f \in Range(required_fields), v \in FieldStates : ChangeField(f, v)
    \/ \E v \in TitleStates : ChangeField("title", v)
    \/ \E f \in Range(important_fields) : AddImportant(f)

SpecConfidence == ConfidenceInit /\ [][NextConfidence]_vars

\* C25: every result the extraction pipeline returns as successful has a
\* confidence of at least the minimum threshold 0.3.
C25_SuccessAboveMinimum ==
    (probe.pc = "parsed" /\ probe.result.success)
        => probe.result.confidence >= min_confidence_score

\* required fields that are present and pass the content check
PresentAndValid(data) ==
    Range(required_fields) \ (missing_fields(data) \cup invalid_fields(data))

\* 0.7/3 for each valid required field, 0.3/4 for each important field,
\* less 0.2 for each invalid field, clamped to [0,1], in 120ths
WeightedScore(data) ==
    LET raw == 28 * Cardinality(PresentAndValid(data))
                 + 9 * valid_important(data)
                 - 24 * Cardinality(invalid_fields(data))
    IN  IF raw < 0 THEN 0 ELSE IF raw > 120 THEN 120 ELSE raw

\* C26: the confidence score of a record is 0.7/3 for each required field
\* present and valid plus 0.3/4 for each important field present minus 0.2
\* for each invalid field, clamped to [0,1]; seven valid fields score 1.0.
C26_ScoreFormula ==
    probe.pc \in {"record", "parsed", "changed"}
        => 120 * confidence_score(probe.data) = 140 * WeightedScore(probe.data)

\* the change made a required or important field valid
BecameValid ==
    /\ probe.pc = "changed"
    /\ \/ probe.field \in Range(important_fields)
       \/ probe.field \in Range(required_fields)
            /\ probe.data[probe.field] = "good"

\* the change put a field on the invalid list
InvalidIntroduced ==
    /\ probe.pc = "changed"
    /\ Cardinality(invalid_fields(probe.data))
          > Cardinality(invalid_fields(probe.before))

\* C27 as stated: the score never decreases when one more required or
\* important field becomes valid, and it strictly decreases whenever an
\* invalid field is introduced.
C27_StrictlyDecreases ==
    /\ BecameValid
          => confidence_score(probe.data) >= confidence_score(probe.before)
    /\ InvalidIntroduced
          => confidence_score(probe.data) < confidence_score(probe.before)

\* C27 amended: the score never decreases when one more required or
\* important field becomes valid; when an invalid field is introduced it
\* strictly decreases, except that a score of 0 stays 0.
C27_DecreasesUnlessZero ==
    /\ BecameValid
          => confidence_score(probe.data) >= confidence_score(probe.before)
    /\ InvalidIntroduced
          => \/ confidence_score(probe.data) < confidence_score(probe.before)
             \/ /\ confidence_score(probe.before) = 0
                /\ confidence_score(probe.data) = 0

\* an invalid field introduced into a record with a positive score
C27_Witness ==
    /\ InvalidIntroduced
    /\ confidence_score(probe.before) > 0
    /\ confidence_score(probe.data) < confidence_score(probe.before)

(***************************************************************************)
(* Part 9: search_all_retailers with failing sources and storage           *)
(*                                                                         *)
(* One call of search_all_retailers, made by a caller of its own or by a   *)
(* monitoring cycle (monitor_sneakers -> monitor_tracked_sneakers ->       *)
(* _monitor_keyword).  A product is <<retailer, i>>.  storage_failed       *)
(* records that a call into db_manager raised; raised, that an exception   *)
(* left the orchestrator's entry point.                                    *)
(***************************************************************************)
MaxFound == 2      \* products one retailer returns

\* three of the scrapers of self.scrapers, in their order
SearchRetailers == <<"nike", "adidas", "stockx">>

\* scraper.search_products returns a list, raises, or times out
ScrapeOutcomes == {"ok", "raise", "timeout"}

ProductsOf(r, n) == [i \in 1..n |-> <<r, i>>]

CreatedTask ==
    [pc |-> "created", outcome |-> "none", products |-> <<>>, stored |-> 0,
     result |-> <<>>, succeeded |-> FALSE]

SearchAllInit ==
    /\ BreakerInit
    /\ orch = OrchOff
    /\ utcnow = 0
    /\ db = EmptyDb
    /\ mon = [pc |-> "off"]
    /\ eng = [pc |-> "off"]
    /\ probe = [pc |-> "off"]
    /\ hm = [pc |-> "off"]
    /\ srch = [pc |-> "idle"]

\* the tasks of search_all_retailers, one for each retailer
NewSearch(caller, storage_failed) ==
    [pc |-> "searching", caller |-> caller,
     tasks |-> [r \in Range(SearchRetailers) |-> CreatedTask],
     all_products |-> <<>>, alerts |-> 0,
     storage_failed |-> storage_failed, raised |-> FALSE]

\* what the entry point hands back once it has returned
Completed(caller, all_products, alerts, storage_failed) ==
    [pc |-> "completed", caller |-> caller,
     tasks |-> [r \in Range(SearchRetailers) |-> CreatedTask],
     all_products |-> all_products, alerts |-> alerts,
     storage_failed |-> storage_failed, raised |-> FALSE]

\* a caller awaits search_all_retailers(keyword)
SearchAllStart ==
    /\ srch.pc = "idle"
    /\ srch' = NewSearch("search", FALSE)
    /\ UNCHANGED <<utcnow, db, mon, probe, eng>>
    /\ UNCHANGED bvars
    /\ UNCHANGED hm

\* monitor_sneakers awaits monitor_tracked_sneakers
CycleStart ==
    /\ srch.pc = "idle"
    /\ srch' = [pc |-> "grouping"]
    /\ UNCHANGED <<utcnow, db, mon, probe, eng>>
    /\ UNCHANGED bvars
    /\ UNCHANGED hm

\* _get_grouped_tracked_sneakers reads the database; if the read raises,
\* monitor_tracked_sneakers logs it and returns its empty list
CycleGrouped(ok) ==
    /\ srch.pc = "grouping"
    /\ srch' = IF ok THEN NewSearch("monitor", FALSE)
               ELSE Completed("monitor", <<>>, 0, TRUE)
    /\ UNCHANGED <<utcnow, db, mon, probe, eng>>
    /\ UNCHANGED bvars
    /\ UNCHANGED hm

\* _search_retailer: scraper.search_products(keyword); an exception is
\* logged and [] returned
SearchRetailerScrape(r, outcome, n) ==
    /\ srch.pc = "searching"
    /\ srch.tasks[r].pc = "created"
    /\ srch' = [srch EXCEPT !.tasks[r] =
                  IF outcome = "ok"
                  THEN [@ EXCEPT !.pc = "storing", !.outcome = outcome,
                                 !.products = ProductsOf(r, n)]
                  ELSE [@ EXCEPT !.pc = "done", !.outcome = outcome,
                                 !.result = <<>>]]
    /\ UNCHANGED <<utcnow, db, mon, probe, eng>>
    /\ UNCHANGED bvars
    /\ UNCHANGED hm

\* _search_retailer: await db_manager.upsert_product(product) for the next
\* product; an exception is logged and [] returned
SearchRetailerUpsert(r, ok) ==
    /\ srch.pc = "searching"
    /\ srch.tasks[r].pc = "storing"
    /\ srch.tasks[r].stored < Len(srch.tasks[r].products)
    /\ srch' = IF ok
               THEN [srch EXCEPT !.tasks[r].stored = @ + 1]
               ELSE [srch EXCEPT !.tasks[r].pc = "done",
                                 !.tasks[r].result = <<>>,
                                 !.storage_failed = TRUE]
    /\ UNCHANGED <<utcnow, db, mon, probe, eng>>
    /\ UNCHANGED bvars
    /\ UNCHANGED hm

\* _search_retailer: return products
SearchRetailerReturn(r) ==
    /\ srch.pc = "searching"
    /\ srch.tasks[r].pc = "storing"
    /\ srch.tasks[r].stored = Len(srch.tasks[r].products)
    /\ srch' = [srch EXCEPT !.tasks[r].pc = "done",
                            !.tasks[r].result = srch.tasks[r].products,
                            !.tasks[r].succeeded = TRUE]
    /\ UNCHANGED <<utcnow, db, mon, probe, eng>>
    /\ UNCHANGED bvars
    /\ UNCHANGED hm

\* all_products = result: the list of the last task only
extend_replaces(all_products, result) == result

\* all_products.extend(result)
extend(all_products, result) == all_products \o result

\* the loop over the results of gather, which are in the order of the tasks
RECURSIVE collect_results(_, _)
collect_results(tasks, i) ==
    IF i = 0 THEN <<>>
    ELSE extend(collect_results(tasks, i - 1), tasks[SearchRetailers[i]].result)

\* gather has every result; search_all_retailers returns, to its caller or
\* to _monitor_keyword
SearchAllGather ==
    /\ srch.pc = "searching"
    /\ \A r \in Range(SearchRetailers) : srch.tasks[r].pc = "done"
    /\ LET all_products == collect_results(srch.tasks, Len(SearchRetailers))
       IN  srch' = [srch EXCEPT
                      !.pc = IF srch.caller = "monitor" /\ all_products # <<>>
                             THEN "checking" ELSE "completed",
                      !.all_products = all_products]
    /\ UNCHANGED <<utcnow, db, mon, probe, eng>>
    /\ UNCHANGED bvars
    /\ UNCHANGED hm

\* _monitor_keyword checks the tracked sneakers, which reads users, products
\* and resale data; an exception is logged by _check_tracked_sneaker and the
\* alerts found so far are returned
CycleCheck(ok, alerts) ==
    /\ srch.pc = "checking"
    /\ srch' = IF ok
               THEN [srch EXCEPT !.pc = "completed", !.alerts = alerts]
               ELSE [srch EXCEPT !.pc = "completed", !.alerts = 0,
                                 !.storage_failed = TRUE]
    /\ UNCHANGED <<utcnow, db, mon, probe, eng>>
    /\ UNCHANGED bvars
    /\ UNCHANGED hm

NextSearchAll ==
    \/ SearchAllStart
    \/ CycleStart
    \/ \E ok \in BOOLEAN : CycleGrouped(ok)
    \/ \E r \in Range(SearchRetailers), outcome \in ScrapeOutcomes,
          n \in 0..MaxFound : SearchRetailerScrape(r, outcome, n)
    \/ \E r \in Range(SearchRetailers), ok \in BOOLEAN :
          SearchRetailerUpsert(r, ok)
    \/ \E r \in Range(SearchRetailers) : SearchRetailerReturn(r)
    \/ SearchAllGather
    \/ \E ok \in BOOLEAN, alerts \in 0..1 : CycleCheck(ok, alerts)

SpecSearchAll == SearchAllInit /\ [][NextSearchAll]_vars

\* the search has returned its list
SearchReturned ==
    /\ srch.pc \in {"checking", "completed"}
    /\ \E r \in Range(SearchRetailers) : srch.tasks[r].pc = "done"

Occurrences(seq, x) == Cardinality({i \in DOMAIN seq : seq[i] = x})

\* C28: when any of the sources raise or time out, the search raises no
\* error and its list holds, once each, every product of every source that
\* succeeded.
C28_SurvivesSourceFailures ==
    SearchReturned =>
        /\ ~srch.raised
        /\ \A r \in Range(SearchRetailers) :
              srch.tasks[r].succeeded =>
                 \A i \in DOMAIN srch.tasks[r].products :
                    Occurrences(srch.all_products, srch.tasks[r].products[i]) = 1

\* a search in which one source raised, another timed out and the third
\* returned its products
C28_Witness ==
    /\ SearchReturned
    /\ srch.tasks["nike"].outcome = "raise"
    /\ srch.tasks["stockx"].outcome = "timeout"
    /\ srch.tasks["adidas"].succeeded
    /\ Len(srch.all_products) = MaxFound

\* C29: a storage failure during a search or a monitoring cycle reaches the
\* caller of the orchestrator as an error.
C29_StorageFailurePropagates ==
    (srch.pc = "completed" /\ srch.storage_failed) => srch.raised

(***************************************************************************)
(* The circuit breaker of Part 1 under concurrent requests                 *)
(***************************************************************************)
\* request r issues a session.get in this step
Fetches(r) == req'[r].fetches > req[r].fetches

\* C30: no fetch is issued while the breaker is open, by a new request or
\* by a retry of a request admitted before the breaker opened.
C30_NoFetchWhileOpen ==
    [][\A r \in Req : Fetches(r) => ~is_circuit_breaker_open]_vars

(***************************************************************************)
(* The Monitor cycle of Part 4: the snapshot the detectors read            *)
(***************************************************************************)
\* C31: when the detectors are about to check the product a task extracted,
\* the snapshot stored for its key before the cycle is still the stored one.
C31_PreviousSnapshotRetained ==
    \A k \in DOMAIN mon.tasks : \A prev \in mon.prior :
        (/\ mon.tasks[k].pc = "check"
         /\ prev.sku = mon.tasks[k].products[1].sku
         /\ prev.retailer = mon.tasks[k].products[1].retailer)
        => prev \in db.products

(***************************************************************************)
(* Part 10: a health-check run on an enhanced scraper: health_check makes  *)
(* one request and reports the scraper's counters, _analyze_health_data    *)
(* classifies the report.  One caller; the request's attempts are one      *)
(* step.                                                                   *)
(***************************************************************************)
MaxChecked == 6     \* requests the scraper has made before the health check

\* the counters of a scraper after total requests, of which successful
\* succeeded and the last failures failed in a row
ScraperStats(total, successful, failures) ==
    [total_requests |-> total, successful_requests |-> successful,
     last_successful_scrape |-> IF successful > 0 THEN 0 ELSE None,
     consecutive_failures |-> failures]

\* the dict health_check returns; it has no last_successful_scrape and no
\* response_time_avg key, which _analyze_health_data reads with .get()
health_check(connectivity, hs, breaker_open) ==
    [connectivity |-> connectivity,
     success_rate |-> IF hs.total_requests > 0
                      THEN (100 * hs.successful_requests) \div hs.total_requests
                      ELSE 0,
     total_requests |-> hs.total_requests,
     consecutive_failures |-> hs.consecutive_failures,
     circuit_breaker_open |-> breaker_open,
     last_successful_scrape |-> None,
     response_time_avg |-> 0]

HealthCheckInit ==
    /\ req = [r \in Req |-> IdleReq]
    /\ hist = InitHist
    /\ orch = OrchOff
    /\ utcnow = 0
    /\ db = EmptyDb
    /\ mon = [pc |-> "off"]
    /\ eng = [pc |-> "off"]
    /\ srch = [pc |-> "off"]
    /\ hm = [pc |-> "off"]
    /\ probe = [pc |-> "scraper"]
    /\ now \in {3600, 3 * 3600}
    /\ \E total \in 0..MaxChecked : \E successful \in 0..total :
       \E failures \in 0..(total - successful) :
          /\ health_stats = ScraperStats(total, successful, failures)
          /\ failure_count = failures
          /\ last_failure_time = IF failures > 0 THEN 0 ELSE None

\* health_check: the request to httpbin and the report
HealthCheckRun(outcome) ==
    /\ probe.pc = "scraper"
    /\ LET s == IF is_circuit_breaker_open
                THEN <<failure_count, last_failure_time, health_stats>>
                ELSE LET hs == [health_stats EXCEPT !.total_requests = @ + 1]
                     IN IF outcome = "200"
                        THEN record_success(failure_count, last_failure_time, hs)
                        ELSE record_failure(failure_count, last_failure_time, hs)
           connectivity == ~is_circuit_breaker_open /\ outcome = "200"
       IN /\ failure_count' = s[1]
          /\ last_failure_time' = s[2]
          /\ health_stats' = s[3]
          /\ probe' = [pc |-> "health",
                       health_data |->
                           health_check(connectivity, s[3],
                               is_circuit_breaker_open_at(s[1], s[2], now)),
                       status |-> "healthy"]
    /\ UNCHANGED <<now, req, hist, orch>>
    /\ UNCHANGED <<utcnow, db, mon, eng, srch, hm>>

NextHealthCheck ==
    \/ \E outcome \in Outcomes : HealthCheckRun(outcome)
    \/ Analyze

SpecHealthCheck == HealthCheckInit /\ [][NextHealthCheck]_vars

\* the status before and after the "Check stale data" rule
BeforeStaleRule(health_data) ==
    consecutive_failures_rule(first_rule(health_data),
                              health_data.consecutive_failures)
AfterStaleRule(health_data) ==
    stale_data_rule(BeforeStaleRule(health_data),
                    health_data.last_successful_scrape,
                    health_data.total_requests)

\* C32: the staleness rule makes a source Critical only when it has
\* attempted requests and has never recorded a success.
C32_StaleCriticalOnlyWithoutSuccess ==
    (/\ probe.pc = "classified"
     /\ BeforeStaleRule(probe.health_data) # "critical"
     /\ AfterStaleRule(probe.health_data) = "critical")
    => /\ health_stats.total_requests > 0
       /\ health_stats.successful_requests = 0

(***************************************************************************)
(* The counters of Part 1 under concurrent requests.  hist.trail is the    *)
(* number of requests that completed as failures since the last success,   *)
(* hist.admitted the number of requests let past the breaker.              *)
(***************************************************************************)
\* C33: no update of the counters is lost: the failure count is the number
\* of requests that failed since the last success, and total_requests the
\* number of requests admitted.
C33_NoLostUpdates ==
    /\ failure_count = hist.trail
    /\ health_stats.consecutive_failures = hist.trail
    /\ health_stats.total_requests = hist.admitted

\* two requests that were in progress together have both failed
C33_Witness ==
    /\ \A r \in Req : /\ req[r].pc = "done"
                      /\ req[r].result = "null"
                      /\ req[r].fetches = 3
    /\ failure_count = 6
    /\ health_stats.total_requests = 6

(***************************************************************************)
(* Part 11: _try_multiple_parsing_methods step by step.  A page is what    *)
(* each strategy makes of it: nothing to extract ("none"), a record its    *)
(* threshold rejects ("low"), or a record it accepts ("ok"), as far as the *)
(* scoring of Part 8 lets the strategy reject or accept a record at all.   *)
(***************************************************************************)
PageOutcomes == {"none", "low", "ok"}

\* what strategy m can make of a page
PageOutcomesOf(m) ==
    {o \in PageOutcomes :
        \/ o = "none"
        \/ \E data \in Extractable(m) :
              strategy_result(m, data).success = (o = "ok")}

Pages ==
    {page \in [DOMAIN Strategies -> PageOutcomes] :
        \A i \in DOMAIN Strategies : page[i] \in PageOutcomesOf(Strategies[i])}

PipelineInit ==
    /\ BreakerInit
    /\ orch = OrchOff
    /\ utcnow = 0
    /\ db = EmptyDb
    /\ mon = [pc |-> "off"]
    /\ eng = [pc |-> "off"]
    /\ srch = [pc |-> "off"]
    /\ hm = [pc |-> "off"]
    /\ \E page \in Pages :
          probe = [pc |-> "parsing", page |-> page, i |-> 1, invoked |-> <<>>,
                   result |-> [success |-> FALSE, method |-> "none"]]

\* a pipeline without the "if result.success: return result" tests
returns_after_last(success, i) == i = Len(Strategies)

\* the pipeline returns the result of strategy i when it succeeded, and the
\* result of the last strategy in any case
returns_after(success, i) == success \/ i = Len(Strategies)

\* result = await self._try_..._parsing(soup), and the test that follows
InvokeStrategy ==
    /\ probe.pc = "parsing"
    /\ LET i       == probe.i
           success == probe.page[i] = "ok"
       IN probe' = [probe EXCEPT
                      !.invoked = Append(@, Strategies[i]),
                      !.result = [success |-> success, method |-> Strategies[i]],
                      !.i = IF returns_after(success, i) THEN i ELSE i + 1,
                      !.pc = IF returns_after(success, i) THEN "returned"
                             ELSE "parsing"]
    /\ UNCHANGED <<utcnow, db, mon, eng, srch>>
    /\ UNCHANGED bvars
    /\ UNCHANGED hm

NextPipeline == InvokeStrategy

SpecPipeline == PipelineInit /\ [][NextPipeline]_vars

\* the strategies that accept the page
Accepting(page) == {i \in DOMAIN Strategies : page[i] = "ok"}

\* the first of them, or the last strategy when there is none
FirstAccepting(page) ==
    IF Accepting(page) = {} THEN Len(Strategies)
    ELSE CHOOSE i \in Accepting(page) : \A j \in Accepting(page) : i <= j

\* C34: the strategies are tried in the order JSON-LD, script JSON,
\* structured HTML, fallback HTML; the result returned is that of the first
\* strategy that succeeds, and no strategy is invoked after it.
C34_FirstSuccessInOrder ==
    /\ probe.invoked = SubSeq(Strategies, 1, Len(probe.invoked))
    /\ Len(probe.invoked) <= FirstAccepting(probe.page)
    /\ probe.pc = "returned" =>
          /\ Len(probe.invoked) = FirstAccepting(probe.page)
          /\ probe.result.method = Strategies[FirstAccepting(probe.page)]
          /\ probe.result.success = (Accepting(probe.page) # {})
          /\ probe.result =
                try_multiple_parsing_methods(
                    [i \in DOMAIN Strategies |-> probe.page[i] = "ok"])

\* JSON-LD succeeded on a page the fallback would have accepted too, and
\* the fallback succeeded after three failures
C34_Witness ==
    /\ probe.pc = "returned"
    /\ probe.result.success
    /\ \/ /\ probe.page = <<"ok", "none", "low", "ok">>
          /\ probe.invoked = <<"json_ld">>
       \/ /\ probe.page = <<"low", "low", "low", "ok">>
          /\ probe.invoked = Strategies

\* C39: each of the four strategies can be the one that succeeds: for each
\* there is a record it can extract that it returns as a success.
C39_EveryStrategyCanSucceed ==
    probe.pc = "record" =>
        \A m \in Range(Strategies) : "ok" \in PageOutcomesOf(m)

(***************************************************************************)
(* The alert worker of Part 5: what becomes of an alert taken off the      *)
(* queue                                                                   *)
(***************************************************************************)
\* the places an enqueued alert with sequence number n is in
PlacesOf(n) ==
    Cardinality({i \in DOMAIN eng.alert_queue : eng.alert_queue[i].seq = n})
      + Cardinality({i \in DOMAIN eng.sent : eng.sent[i].item.seq = n})
      + Cardinality({i \in DOMAIN eng.suppressed : eng.suppressed[i].seq = n})
      + Cardinality({i \in DOMAIN eng.failed : eng.failed[i].seq = n})
      + (IF eng.worker.pc = "send" /\ eng.worker.alert_data.seq = n
         THEN 1 ELSE 0)

\* C35: every alert put on the queue is in exactly one place: still queued,
\* in the worker's hands, sent once, suppressed, or dropped after an error;
\* none is sent twice or back on the queue after it was taken.
C35_HandledOnce ==
    eng.pc # "off" => \A n \in 1..eng.puts : PlacesOf(n) = 1

\* an alert was sent although create_alert failed, another one was dropped
\* because send_message failed, and the queue is empty
C35_Witness ==
    /\ eng.pc \in {"running", "stopped"}
    /\ eng.alert_queue = <<>>
    /\ eng.worker.pc = "get"
    /\ Len(eng.sent) >= 1
    /\ Len(eng.failed) >= 1
    /\ \E i \in DOMAIN eng.sent :
          db.users[eng.sent[i].item.data.user_telegram_id]
             = eng.sent[i].user

(***************************************************************************)
(* Part 12: the lightweight monitor's alert cooldown                       *)
(* (scrapers/lightweight_scraper_manager.py, main_render.py).  The         *)
(* background loop and POST /api/monitor/force both await                  *)
(* monitor_tracked_sneakers on the one event loop; each await of the       *)
(* database is a point where the other may run.                            *)
(***************************************************************************)
MaxLightRuns  == 2     \* cycles each caller runs
MaxLightTicks == 2     \* clock steps of half a cooldown

\* start_monitoring of main_render.py and force_monitoring_cycle
LightCallers == {"background", "forced"}

LightResult(retailer, stock, price, sizes) ==
    [name |-> "aj1", retailer |-> retailer, in_stock |-> stock,
     price |-> price, sizes |-> sizes]

\* what search_sneakers returned for the tracked name
LightResultChoices ==
    { <<LightResult("nike", TRUE, 150, {"10"})>>,
      <<LightResult("nike", TRUE, 150, {}), LightResult("nike", TRUE, 250, {"9"})>>,
      <<LightResult("stockx", FALSE, 150, {"10"}),
        LightResult("nike", TRUE, 150, {"9", "10"})>> }

\* the tracking requests of the one user: size wanted, price limit (0: none)
LightTrackings ==
    { [user_id |-> 1, size |-> sz, price_limit |-> pl] :
        sz \in {"all", "10"}, pl \in {0, 200} }

\* _check_for_alert up to the cooldown check: stock, price limit and size
passes_checks(tracking, result) ==
    /\ result.in_stock
    /\ ~(tracking.price_limit # 0 /\ result.price # 0
         /\ result.price > tracking.price_limit)
    /\ (tracking.size # "all" /\ result.sizes # {})
          => tracking.size \in result.sizes

\* _was_recent_alert: an alert of the same user, name and retailer created
\* at or after utcnow - 2 hours is stored
was_recent_alert(alerts, user_id, sneaker_name, retailer, t) ==
    \E a \in alerts : /\ a.user_id = user_id
                      /\ a.sneaker_name = sneaker_name
                      /\ a.retailer = retailer
                      /\ a.created_at >= t - AlertCooldown

LightIdle == [pc |-> "idle", results |-> <<>>, i |-> 0, runs |-> 0, at |-> 0]

LightInit ==
    /\ BreakerInit
    /\ orch = OrchOff
    /\ eng = [pc |-> "off"]
    /\ srch = [pc |-> "off"]
    /\ hm = [pc |-> "off"]
    /\ probe = [pc |-> "off"]
    /\ utcnow = 0
    /\ db = [alerts |-> {}]
    /\ \E tracking \in LightTrackings :
          mon = [pc |-> "light", tracking |-> tracking, ticks |-> 0,
                 cyc |-> [c \in LightCallers |-> LightIdle],
                 generated |-> {}]

\* the loop of _monitor_sneaker moves to the next result, or the cycle ends
next_result(cy) ==
    IF cy.i < Len(cy.results)
    THEN [cy EXCEPT !.pc = "check", !.i = @ + 1]
    ELSE [cy EXCEPT !.pc = "idle", !.results = <<>>, !.i = 0]

\* monitor_tracked_sneakers up to the results of search_sneakers
LightBegin(c, results) ==
    /\ mon.pc = "light"
    /\ mon.cyc[c].pc = "idle"
    /\ mon.cyc[c].runs < MaxLightRuns
    /\ mon' = [mon EXCEPT !.cyc[c] = [pc |-> "check", results |-> results,
                                      i |-> 1, runs |-> @.runs + 1, at |-> 0]]
    /\ UNCHANGED <<utcnow, db, eng, probe, srch>>
    /\ UNCHANGED bvars
    /\ UNCHANGED hm

\* _check_for_alert up to the answer of _was_recent_alert's find_one (ok),
\* or its failure, which _was_recent_alert turns into False; the alert
\* dict is built with created_at = utcnow() before log_alert is awaited
LightCheck(c, ok) ==
    /\ mon.pc = "light"
    /\ mon.cyc[c].pc = "check"
    /\ LET cy     == mon.cyc[c]
           result == cy.results[cy.i]
           recent == ok /\ was_recent_alert(db.alerts, mon.tracking.user_id,
                                            result.name, result.retailer,
                                            utcnow)
       IN mon' = [mon EXCEPT !.cyc[c] =
                    IF passes_checks(mon.tracking, result) /\ ~recent
                    THEN [cy EXCEPT !.pc = "log", !.at = utcnow]
                    ELSE next_result(cy)]
    /\ UNCHANGED <<utcnow, db, eng, probe, srch>>
    /\ UNCHANGED bvars
    /\ UNCHANGED hm

\* log_alert: insert_one stores the alert (ok) or raises, which log_alert
\* catches; either way _check_for_alert returns the alert
LightLog(c, ok) ==
    /\ mon.pc = "light"
    /\ mon.cyc[c].pc = "log"
    /\ LET cy     == mon.cyc[c]
           result == cy.results[cy.i]
       IN /\ db' = IF ok
                   THEN [db EXCEPT !.alerts = @ \cup
                           {[user_id |-> mon.tracking.user_id,
                             sneaker_name |-> result.name,
                             retailer |-> result.retailer,
                             created_at |-> utcnow]}]
                   ELSE db
          /\ mon' = [mon EXCEPT
                       !.cyc[c] = next_result(cy),
                       !.generated = @ \cup
                           {[user_id |-> mon.tracking.user_id,
                             sneaker_name |-> result.name,
                             retailer |-> result.retailer,
                             created_at |-> cy.at,
                             by |-> c, run |-> cy.runs, i |-> cy.i]}]
    /\ UNCHANGED <<utcnow, eng, probe, srch>>
    /\ UNCHANGED bvars
    /\ UNCHANGED hm

\* time passes between cycles: asyncio.sleep of the background loop
LightTick ==
    /\ mon.pc = "light"
    /\ \A c \in LightCallers : mon.cyc[c].pc = "idle"
    /\ mon.ticks < MaxLightTicks
    /\ utcnow' = utcnow + AlertCooldown \div 2
    /\ mon' = [mon EXCEPT !.ticks = @ + 1]
    /\ UNCHANGED <<db, eng, probe, srch>>
    /\ UNCHANGED bvars
    /\ UNCHANGED hm

NextLight ==
    \/ \E c \in LightCallers : \E results \in LightResultChoices :
          LightBegin(c, results)
    \/ \E c \in LightCallers : \E ok \in BOOLEAN : LightCheck(c, ok)
    \/ \E c \in LightCallers : \E ok \in BOOLEAN : LightLog(c, ok)
    \/ LightTick

SpecLight == LightInit /\ [][NextLight]_vars

\* C36: any two alerts the lightweight monitor generated for the same user,
\* sneaker name and retailer were created at least 2 hours apart, whichever
\* of the background cycle and the forced cycle generated them.
C36_CooldownBetweenAlerts ==
    mon.pc = "light" =>
        \A a \in mon.generated : \A b \in mon.generated :
            (/\ a # b
             /\ a.user_id = b.user_id
             /\ a.sneaker_name = b.sneaker_name
             /\ a.retailer = b.retailer
             /\ a.created_at >= b.created_at)
            => a.created_at - b.created_at >= AlertCooldown

(***************************************************************************)
(* The sources search_with_fallback queries (Part 6)                       *)
(***************************************************************************)
\* C37: in a fallback search, every source that was queried is Healthy,
\* Warning or Critical in the health results the search started from, and a
\* source queried at once is Healthy; a Down source and a source without a
\* health record are never queried.
C37_OnlyRatedSourcesQueried ==
    srch.pc # "off" =>
        \A r \in FallbackRetailers :
            srch.tasks[r].pc \in {"fetching", "done"} =>
                /\ srch.health[r] \in {"healthy", "warning", "critical"}
                /\ srch.tasks[r].kind = "healthy" => srch.health[r] = "healthy"

\* a search returned after querying its Healthy and its Critical source,
\* with a Down source left alone; and one with a source without a record
C37_Witness ==
    /\ srch.pc = "returned"
    /\ \/ /\ srch.health = [r \in FallbackRetailers |->
                              IF r = "nike" THEN "healthy"
                              ELSE IF r = "adidas" THEN "down" ELSE "critical"]
          /\ srch.tasks["nike"].pc = "done"
          /\ srch.tasks["stockx"].pc = "done"
          /\ srch.tasks["adidas"].pc = "none"
       \/ /\ srch.health = [r \in FallbackRetailers |->
                              IF r = "nike" THEN "none" ELSE "warning"]
          /\ srch.tasks["nike"].pc = "none"
          /\ srch.tasks["adidas"].pc = "done"

(***************************************************************************)
(* Part 13: the life cycle of the monitoring engine                        *)
(* (app/monitoring_engine.py).  start and stop contain no await, so each   *)
(* call is one step; a consumer task created by start runs process_alerts  *)
(* until it is cancelled, and nothing in the engine keeps or cancels it.   *)
(***************************************************************************)
MaxLifeCalls == 5     \* calls of start and stop
MaxLifePuts  == 3     \* alerts put on the queue

LifeInit ==
    /\ BreakerInit
    /\ orch = OrchOff
    /\ utcnow = 0
    /\ db = EmptyDb
    /\ mon = [pc |-> "off"]
    /\ srch = [pc |-> "off"]
    /\ probe = [pc |-> "off"]
    /\ hm = [pc |-> "off"]
    /\ eng = [pc |-> "life", is_running |-> FALSE, scheduler |-> "stopped",
              alert_queue |-> <<>>, workers |-> <<>>, calls |-> 0,
              puts |-> 0]

\* MonitoringEngine.start: returns if is_running; else schedules the jobs,
\* starts the scheduler, creates a process_alerts task, sets is_running
LifeStart ==
    /\ eng.pc = "life"
    /\ eng.calls < MaxLifeCalls
    /\ eng' = IF eng.is_running
              THEN [eng EXCEPT !.calls = @ + 1]
              ELSE [eng EXCEPT
                      !.calls = @ + 1,
                      !.scheduler = "running",
                      !.workers = Append(@, [pc |-> "get", item |-> 0]),
                      !.is_running = TRUE]
    /\ UNCHANGED <<utcnow, db, mon, probe, srch>>
    /\ UNCHANGED bvars
    /\ UNCHANGED hm

\* MonitoringEngine.stop: returns if not is_running; else shuts the
\* scheduler down and clears is_running
LifeStop ==
    /\ eng.pc = "life"
    /\ eng.calls < MaxLifeCalls
    /\ eng' = IF ~eng.is_running
              THEN [eng EXCEPT !.calls = @ + 1]
              ELSE [eng EXCEPT
                      !.calls = @ + 1,
                      !.scheduler = "stopped",
                      !.is_running = FALSE]
    /\ UNCHANGED <<utcnow, db, mon, probe, srch>>
    /\ UNCHANGED bvars
    /\ UNCHANGED hm

\* a scheduled monitor_sneakers job puts an alert on the queue
LifePut ==
    /\ eng.pc = "life"
    /\ eng.scheduler = "running"
    /\ eng.puts < MaxLifePuts
    /\ eng' = [eng EXCEPT !.puts = @ + 1,
                          !.alert_queue = Append(@, eng.puts + 1)]
    /\ UNCHANGED <<utcnow, db, mon, probe, srch>>
    /\ UNCHANGED bvars
    /\ UNCHANGED hm

\* process_alerts of consumer task w: alert_queue.get() returns
LifeGet(w) ==
    /\ eng.pc = "life"
    /\ w \in DOMAIN eng.workers
    /\ eng.workers[w].pc = "get"
    /\ eng.alert_queue # <<>>
    /\ eng' = [eng EXCEPT
                 !.alert_queue = queue_get(@).rest,
                 !.workers[w] = [pc |-> "send", item |-> queue_get(eng.alert_queue).item]]
    /\ UNCHANGED <<utcnow, db, mon, probe, srch>>
    /\ UNCHANGED bvars
    /\ UNCHANGED hm

\* process_alerts of consumer task w: _send_alert and task_done are over
LifeSent(w) ==
    /\ eng.pc = "life"
    /\ w \in DOMAIN eng.workers
    /\ eng.workers[w].pc = "send"
    /\ eng' = [eng EXCEPT !.workers[w] = [pc |-> "get", item |-> 0]]
    /\ UNCHANGED <<utcnow, db, mon, probe, srch>>
    /\ UNCHANGED bvars
    /\ UNCHANGED hm

NextLife ==
    \/ LifeStart
    \/ LifeStop
    \/ LifePut
    \/ \E w \in 1..MaxLifeCalls : LifeGet(w)
    \/ \E w \in 1..MaxLifeCalls : LifeSent(w)

SpecLife == LifeInit /\ [][NextLife]_vars

\* C38: whatever calls of start and stop were made, at most one task
\* consuming the alert queue is running.
C38_AtMostOneConsumer ==
    eng.pc = "life" => Len(eng.workers) <= 1

(***************************************************************************)
(* Part 14: the lightweight search and its overall timeout                 *)
(* (scrapers/lightweight_scraper_manager.py).  search_sneakers creates a   *)
(* task per scraper for the first three scrapers and awaits                *)
(* asyncio.wait_for(asyncio.gather(...), timeout=30.0).                    *)
(***************************************************************************)
MaxPerSource == 2     \* products one scraper returns

\* list(self.scrapers.items())[:3], in the order of the dict
LightRetailers == <<"nike", "adidas", "stockx">>

\* the products a scraper returns: n of them, labelled by source
ResultsOf(r, n) == [i \in 1..n |-> <<r, i>>]

LightSearchInit ==
    /\ BreakerInit
    /\ orch = OrchOff
    /\ utcnow = 0
    /\ db = EmptyDb
    /\ mon = [pc |-> "off"]
    /\ eng = [pc |-> "off"]
    /\ probe = [pc |-> "off"]
    /\ hm = [pc |-> "off"]
    /\ \E max_results \in {3, 5} :
          srch = [pc |-> "idle", max_results |-> max_results,
                  tasks |-> [r \in DOMAIN LightRetailers |->
                               [pc |-> "none", results |-> <<>>]],
                  all_results |-> <<>>, returned |-> <<>>]

\* search_sneakers up to the await of wait_for: all_results = [] and one
\* task per scraper
LightSearchStart ==
    /\ srch.pc = "idle"
    /\ srch' = [srch EXCEPT
                  !.pc = "waiting",
                  !.all_results = <<>>,
                  !.tasks = [r \in DOMAIN LightRetailers |->
                               [pc |-> "running", results |-> <<>>]]]
    /\ UNCHANGED <<utcnow, db, mon, probe, eng>>
    /\ UNCHANGED bvars
    /\ UNCHANGED hm

\* _search_retailer_safe of task r returns: the scraper's n products, or []
\* when search_products raised
LightTaskReturn(r, ok, n) ==
    /\ srch.pc = "waiting"
    /\ srch.tasks[r].pc = "running"
    /\ srch' = [srch EXCEPT
                  !.tasks[r] = [pc |-> "done",
                                results |-> IF ok
                                            THEN ResultsOf(LightRetailers[r], n)
                                            ELSE <<>>]]
    /\ UNCHANGED <<utcnow, db, mon, probe, eng>>
    /\ UNCHANGED bvars
    /\ UNCHANGED hm

\* the results of the tasks 1..k that are done, in task order
RECURSIVE CompletedResults(_, _)
CompletedResults(tasks, k) ==
    IF k = 0 THEN <<>>
    ELSE CompletedResults(tasks, k - 1)
           \o (IF tasks[k].pc = "done" THEN tasks[k].results ELSE <<>>)

\* every task returned within the 30 s: the lists are appended to
\* all_results in task order and the first max_results are returned
LightGather ==
    /\ srch.pc = "waiting"
    /\ \A r \in DOMAIN LightRetailers : srch.tasks[r].pc = "done"
    /\ LET all_results == CompletedResults(srch.tasks, Len(LightRetailers))
       IN srch' = [srch EXCEPT
                     !.pc = "returned",
                     !.all_results = all_results,
                     !.returned = Take(all_results, srch.max_results)]
    /\ UNCHANGED <<utcnow, db, mon, probe, eng>>
    /\ UNCHANGED bvars
    /\ UNCHANGED hm

\* the 30 s pass with a task still running: wait_for cancels the gather and
\* its tasks and raises TimeoutError; the handler returns
\* all_results[:max_results], all_results being as it was before the await
LightTimeout ==
    /\ srch.pc = "waiting"
    /\ \E r \in DOMAIN LightRetailers : srch.tasks[r].pc = "running"
    /\ srch' = [srch EXCEPT
                  !.pc = "timed_out",
                  !.tasks = [r \in DOMAIN LightRetailers |->
                               IF srch.tasks[r].pc = "running"
                               THEN [pc |-> "cancelled", results |-> <<>>]
                               ELSE srch.tasks[r]],
                  !.returned = Take(srch.all_results, srch.max_results)]
    /\ UNCHANGED <<utcnow, db, mon, probe, eng>>
    /\ UNCHANGED bvars
    /\ UNCHANGED hm

NextLightSearch ==
    \/ LightSearchStart
    \/ \E r \in DOMAIN LightRetailers : \E ok \in BOOLEAN :
          \E n \in 0..MaxPerSource : LightTaskReturn(r, ok, n)
    \/ LightGather
    \/ LightTimeout

SpecLightSearch == LightSearchInit /\ [][NextLightSearch]_vars

\* C40: a search that ended by the overall timeout returned the results of
\* the scrapers that had completed before it, in order, cut to max_results.
C40_TimeoutReturnsCompleted ==
    srch.pc = "timed_out" =>
        srch.returned = Take(CompletedResults(srch.tasks, Len(LightRetailers)),
                             srch.max_results)

====
